---- MODULE Spec2Model ----
(***************************************************************************)
(* TrustNet api-python: the in-memory cache (app/core/cache.py,            *)
(* MockRedisClient) and the in-memory document store (app/core/gcp.py,     *)
(* MockFirestoreClient / Collection / Document / DocumentSnapshot) with    *)
(* the query helpers of app/core/database.py (FirestoreManager).           *)
(***************************************************************************)
EXTENDS Integers, Sequences, FiniteSets, TLC

(***************************************************************************)
(* Bounds of the model.                                                    *)
(***************************************************************************)
MaxTime == 3
MaxTtl == 1
MaxDocs == 2

\* settings.CACHE_TTL_SECONDS
DefaultTtl == 3600

Keys == {"k1", "k2"}
Values == {"v1", "v2"}

\* Python's None as a cache value / get result.
None == "None"

\* The `ex` argument of MockRedisClient.set: <<>> is None (not given),
\* <<n>> is the integer n.
ExArgs == {<< >>} \cup {<<n>> : n \in 0..MaxTtl}

\* Collections, document ids, field names and field values of the document store.
Colls == {"evidence", "verdicts"}
DocIds == {"d1", "d2"}
ClaimIds == {"c1", "c2"}
Statuses == {"new"}

\* The dict objects a caller can hold at one time.
Objs == {"o1", "o2"}

VARIABLES
    data,       \* MockRedisClient._data   : key -> value
    expiry,     \* MockRedisClient._expiry : key -> absolute expiry time
    now,        \* datetime.utcnow()
    last,       \* the last cache call: its name, arguments and result
    written,    \* per key: time, ex and value of the latest set() not followed by delete()
    store,      \* MockFirestoreClient._data : collection -> ordered dict id -> fields
    dlast,      \* the last document-store call: its name, target and result
    heap,       \* the dict objects callers and the store hold: object -> fields
    refs,       \* MockFirestoreClient._data : collection -> ordered dict id -> object
    cache_initialized,  \* cache.py _cache_initialized
    redis_client,       \* cache.py _redis_client: "None" or "mock"
    mlast,      \* the last CacheManager call: its name, arguments and result
    database_initialized,   \* database.py _database_initialized
    gcp_initialized,        \* gcp.py _client_manager.initialized
    mock_mode,              \* gcp.py _client_manager.mock_mode
    firestore_client,       \* gcp.py _firestore_client: "None", "mock" or "real"
    db_client,              \* database.py db_manager.client: "None", "mock" or "real"
    pc,         \* where main.py lifespan stands
    error,      \* a startup step of lifespan raised
    fresh_start,    \* lifespan began with nothing initialized
    slast,      \* the last FirestoreManager or init / close call and its outcome
    pending,    \* per logical caller: the write it has issued, Idle or Done
    ran,        \* the writes applied so far, in the order they ran
    http,       \* the /v1/verify endpoints: claim ids made, ids returned by
                \* successful POSTs, ids answered as queued, background tasks
                \* not yet run, the last response
    jobs,       \* per analysis id: how start_analysis ended, the position of
                \* comprehensive_analysis, its local progress, the record stored
    snap        \* the MockDocumentSnapshot a caller holds

cacheVars == <<data, expiry, now, last, written>>

storeVars == <<store, dlast>>

refVars == <<heap, refs>>

\* What the calls of one component leave alone.
mgrVars == <<cache_initialized, redis_client, mlast>>

svcVars == <<database_initialized, gcp_initialized, mock_mode, firestore_client,
             db_client, pc, error, fresh_start, slast>>

writerVars == <<pending, ran>>

cacheOthers == <<storeVars, refVars, mgrVars, svcVars, writerVars, http, jobs, snap>>

storeOthers == <<cacheVars, refVars, mgrVars, svcVars, writerVars, http, jobs, snap>>

refOthers == <<cacheVars, storeVars, mgrVars, svcVars, writerVars, http, jobs, snap>>

\* The manager works on the client's data and expiry.
mgrOthers == <<now, last, written, storeVars, refVars, svcVars, writerVars, http, jobs, snap>>

\* What no init / close function and no FirestoreManager method touches.
svcOthers == <<now, last, written, dlast, refVars, writerVars, http, jobs, snap>>

\* The writers call set of the cache client and set / update of a document.
writerOthers == <<expiry, now, last, written, dlast, refVars, mgrVars, svcVars, http, jobs, snap>>

\* What no /v1/verify handler touches.
httpOthers == <<now, last, written, dlast, refVars, mgrVars, database_initialized,
                gcp_initialized, mock_mode, firestore_client, pc, error, fresh_start,
                slast, writerVars, jobs, snap>>

\* AnalysisService works on the analysis records only.
jobOthers == <<cacheVars, storeVars, refVars, mgrVars, svcVars, writerVars, http, snap>>

\* document.get() makes a snapshot and may create the collection.
snapOthers == <<cacheVars, storeVars, mgrVars, svcVars, writerVars, http, jobs>>


vars == <<data, expiry, now, last, written, store, dlast, heap, refs,
          cache_initialized, redis_client, mlast,
          database_initialized, gcp_initialized, mock_mode, firestore_client,
          db_client, pc, error, fresh_start, slast, pending, ran, http, jobs, snap>>

(***************************************************************************)
(* Python dict helpers.                                                    *)
(***************************************************************************)
DictDel(d, k) == [x \in (DOMAIN d) \ {k} |-> d[x]]

DictPut(d, k, v) == [x \in (DOMAIN d) \cup {k} |-> IF x = k THEN v ELSE d[x]]

EmptyDict == [x \in {} |-> None]

\* Python truthiness of the optional integer `ex` (None and 0 are falsy).
Truthy(ex) == ex # << >> /\ ex[1] # 0

(***************************************************************************)
(* MockRedisClient                                                         *)
(***************************************************************************)
\* Mutant of GetExpired: the comparison the wrong way round.
GetExpiredFlipped(key) == key \in DOMAIN expiry /\ expiry[key] > now

\* `key in self._expiry and self._expiry[key] < datetime.utcnow()`
GetExpired(key) == key \in DOMAIN expiry /\ expiry[key] < now

\* Mutant of ExistsExpired: an entry counts as expired at its expiry time already.
ExistsExpiredInclusive(key) == key \in DOMAIN expiry /\ expiry[key] <= now

ExistsExpired(key) == key \in DOMAIN expiry /\ expiry[key] < now

\* get: result and the store it leaves. `del self._data[key]` on a key that
\* is not stored raises KeyError before anything is removed.
MockGet(key) ==
    IF GetExpired(key)
    THEN IF key \in DOMAIN data
         THEN [data |-> DictDel(data, key), expiry |-> DictDel(expiry, key),
               val |-> None, raised |-> FALSE]
         ELSE [data |-> data, expiry |-> expiry, val |-> None, raised |-> TRUE]
    ELSE [data |-> data, expiry |-> expiry,
          val |-> IF key \in DOMAIN data THEN data[key] ELSE None,
          raised |-> FALSE]

MockExists(key) ==
    IF ExistsExpired(key)
    THEN IF key \in DOMAIN data
         THEN [data |-> DictDel(data, key), expiry |-> DictDel(expiry, key),
               n |-> 0, raised |-> FALSE]
         ELSE [data |-> data, expiry |-> expiry, n |-> 0, raised |-> TRUE]
    ELSE [data |-> data, expiry |-> expiry,
          n |-> IF key \in DOMAIN data THEN 1 ELSE 0,
          raised |-> FALSE]

\* Mutant of SetExpiry: the ttl stored as if it were an absolute time.
SetExpiryAbsolute(key, ex) ==
    IF Truthy(ex) THEN DictPut(expiry, key, ex[1]) ELSE expiry

\* set: `self._data[key] = value`, then the expiry only `if ex:`.
SetExpiry(key, ex) ==
    IF Truthy(ex) THEN DictPut(expiry, key, now + ex[1]) ELSE expiry

\* Mutant of MockSet: a stored key is not written again (the first writer wins).
MockSetIfAbsent(key, value, ex) ==
    IF key \in DOMAIN data
    THEN [data |-> data, expiry |-> expiry]
    ELSE [data |-> DictPut(data, key, value), expiry |-> SetExpiry(key, ex)]

MockSet(key, value, ex) ==
    [data |-> DictPut(data, key, value), expiry |-> SetExpiry(key, ex)]

\* Mutant of DeleteCount: the expiry record counted as a second removal.
DeleteCountBoth(key) ==
    (IF key \in DOMAIN data THEN 1 ELSE 0) + (IF key \in DOMAIN expiry THEN 1 ELSE 0)

\* delete: the count is incremented only for a key of _data.
DeleteCount(key) == IF key \in DOMAIN data THEN 1 ELSE 0

\* Mutant of MockDelete: `del self._data[key]` without the membership test,
\* a KeyError for a key that is not stored.
MockDeleteStrict(key) ==
    IF key \in DOMAIN data
    THEN [data |-> DictDel(data, key), expiry |-> DictDel(expiry, key),
          n |-> DeleteCount(key), raised |-> FALSE]
    ELSE [data |-> data, expiry |-> expiry, n |-> 0, raised |-> TRUE]

MockDelete(key) ==
    [data |-> DictDel(data, key), expiry |-> DictDel(expiry, key),
     n |-> DeleteCount(key), raised |-> FALSE]

\* Number of stored entries (the "internal size/count check").
Size == Cardinality(DOMAIN data)

\* `last` records a call: op, key, the value result (get), the integer result
\* (exists, delete), whether it raised, and the entry count before the call.
NoCall ==
    [op |-> "init", key |-> "k1", val |-> None, n |-> 0, raised |-> FALSE, size |-> 0]

(***************************************************************************)
(* MockFirestoreClient / MockFirestoreCollection / MockFirestoreDocument   *)
(*                                                                         *)
(* A Python dict keeps insertion order: a collection is the sequence of    *)
(* its [id, fields] items. Assigning to a stored id keeps its position, a  *)
(* new id is appended, `del` closes the gap.                               *)
(***************************************************************************)
\* The field mappings a caller passes: claim_id and status, each optional.
FieldMaps ==
    {[x \in {} |-> "new"]}
    \cup {[claim_id |-> c] : c \in ClaimIds}
    \cup {[status |-> t] : t \in Statuses}
    \cup {[claim_id |-> c, status |-> t] : c \in ClaimIds, t \in Statuses}

EmptyFields == [x \in {} |-> "new"]

\* Position of id in the ordered dict, 0 when it is not a key.
IndexOf(items, id) ==
    IF \E n \in 1..Len(items) : items[n].id = id
    THEN CHOOSE n \in 1..Len(items) : items[n].id = id
    ELSE 0

\* `id in d`
HasKey(items, id) == IndexOf(items, id) # 0

\* `d.get(id)`: << >> is None, <<f>> is the dict f.
ItemsGet(items, id) ==
    IF HasKey(items, id) THEN <<items[IndexOf(items, id)].fields>> ELSE << >>

\* `d[id] = fields`
ItemsPut(items, id, fields) ==
    IF HasKey(items, id)
    THEN [items EXCEPT ![IndexOf(items, id)] = [id |-> id, fields |-> fields]]
    ELSE Append(items, [id |-> id, fields |-> fields])

\* `del d[id]`
ItemsDel(items, id) == SelectSeq(items, LAMBDA e : e.id # id)

\* Mutant of DictUpdate: a stored key keeps its old value.
DictUpdateKeepOld(old, new) ==
    [x \in (DOMAIN old) \cup (DOMAIN new) |-> IF x \in DOMAIN old THEN old[x] ELSE new[x]]

\* `old.update(new)`: every key of new overwrites, every other key stays.
DictUpdate(old, new) ==
    [x \in (DOMAIN old) \cup (DOMAIN new) |-> IF x \in DOMAIN new THEN new[x] ELSE old[x]]

\* MockFirestoreCollection.__init__: `if name not in self._data: self._data[name] = {}`
WithCollection(name) ==
    IF name \in DOMAIN store
    THEN store
    ELSE [c \in (DOMAIN store) \cup {name} |-> IF c = name THEN << >> ELSE store[c]]

\* Mutant of MockDocumentSnapshot: exists taken from the truthiness of data.
MockDocumentSnapshotTruthy(doc_id, d) ==
    [id |-> doc_id,
     exists |-> d # << >> /\ DOMAIN d[1] # {},
     fields |-> IF d = << >> \/ DOMAIN d[1] = {} THEN [x \in {} |-> "new"] ELSE d[1]]

\* MockDocumentSnapshot.__init__: `self._data = data or {}`, `self.exists = data is not None`
MockDocumentSnapshot(doc_id, d) ==
    [id |-> doc_id,
     exists |-> d # << >>,
     fields |-> IF d = << >> \/ DOMAIN d[1] = {} THEN EmptyFields ELSE d[1]]

\* MockFirestoreDocument.get
DocumentGet(coll, doc_id) == MockDocumentSnapshot(doc_id, ItemsGet(store[coll], doc_id))

\* Mutant of DocumentSet: the new fields merged into the stored ones.
DocumentSetMerging(coll, doc_id, fields) ==
    IF HasKey(store[coll], doc_id)
    THEN [store EXCEPT ![coll] =
            ItemsPut(store[coll], doc_id,
                     DictUpdate(store[coll][IndexOf(store[coll], doc_id)].fields, fields))]
    ELSE [store EXCEPT ![coll] = ItemsPut(store[coll], doc_id, fields)]

\* MockFirestoreDocument.set
DocumentSet(coll, doc_id, fields) ==
    [store EXCEPT ![coll] = ItemsPut(store[coll], doc_id, fields)]

\* MockFirestoreDocument.update
DocumentUpdate(coll, doc_id, fields) ==
    IF HasKey(store[coll], doc_id)
    THEN [store EXCEPT ![coll] =
            ItemsPut(store[coll], doc_id,
                     DictUpdate(store[coll][IndexOf(store[coll], doc_id)].fields, fields))]
    ELSE [store EXCEPT ![coll] = ItemsPut(store[coll], doc_id, fields)]

\* Mutant of DocumentDelete: the whole collection emptied.
DocumentDeleteAll(coll, doc_id) ==
    IF HasKey(store[coll], doc_id)
    THEN [store EXCEPT ![coll] = << >>]
    ELSE store

\* MockFirestoreDocument.delete
DocumentDelete(coll, doc_id) ==
    IF HasKey(store[coll], doc_id)
    THEN [store EXCEPT ![coll] = ItemsDel(store[coll], doc_id)]
    ELSE store

\* Mutant of CollectionStream: a generator that is exhausted once consumed,
\* so a stream right after a stream yields nothing.
CollectionStreamOnce(coll) == IF dlast.op = "stream" THEN << >> ELSE store[coll]

\* MockFirestoreCollection.stream: every item, in dict order; each yielded
\* document answers to_dict() with its doc_data.
CollectionStream(coll) == store[coll]

\* Number of documents stored, over all collections.
TotalDocs ==
    Cardinality(UNION {{<<c, n>> : n \in 1..Len(store[c])} : c \in DOMAIN store})

\* The model stores at most MaxDocs documents: a call may add one below that.
MayStore(coll, doc_id) == HasKey(store[coll], doc_id) \/ TotalDocs < MaxDocs

NoSnapshot == [id |-> "d1", exists |-> FALSE, fields |-> EmptyFields]

\* `dlast` records a call: op, collection, document id, the document before
\* the call (<< >> when absent), the snapshot returned (get), the documents
\* returned (stream and queries), the value queried for, and whether the
\* call raised to its caller; arg is the mapping passed to set / update;
\* after is the call that preceded a stream.
NoStoreCall ==
    [op |-> "init", coll |-> "evidence", id |-> "d1", before |-> << >>,
     arg |-> EmptyFields, snap |-> NoSnapshot, docs |-> << >>, x |-> "c1", raised |-> FALSE,
     after |-> "init"]

(***************************************************************************)
(* json.dumps / json.loads                                                 *)
(*                                                                         *)
(* A Python value is a record: its type t, and by type the string s, the   *)
(* integer n, the items of a list or tuple, the keys and items of a dict.  *)
(* The JSON document is its text.                                          *)
(***************************************************************************)
PyStr(s) == [t |-> "str", s |-> s, n |-> 0, keys |-> << >>, items |-> << >>]

PyInt(n) == [t |-> "int", s |-> "", n |-> n, keys |-> << >>, items |-> << >>]

PyList(items) == [t |-> "list", s |-> "", n |-> 0, keys |-> << >>, items |-> items]

PyTuple(items) == [t |-> "tuple", s |-> "", n |-> 0, keys |-> << >>, items |-> items]

PyDict(keys, items) == [t |-> "dict", s |-> "", n |-> 0, keys |-> keys, items |-> items]

\* The values callers cache: a string, a number, sequences (list, tuple),
\* mappings (str key, int key), and mappings that nest one of these.
PyValues ==
    {PyStr("a"), PyInt(1), PyList(<<PyInt(1)>>), PyTuple(<<PyInt(1)>>),
     PyDict(<< >>, << >>),
     PyDict(<<PyStr("k")>>, <<PyInt(1)>>),
     PyDict(<<PyInt(1)>>, <<PyStr("a")>>),
     PyDict(<<PyStr("1")>>, <<PyStr("a")>>),
     PyDict(<<PyStr("k")>>, <<PyList(<<PyInt(1)>>)>>),
     PyDict(<<PyStr("k")>>, <<PyTuple(<<PyInt(1)>>)>>),
     PyDict(<<PyStr("k")>>, <<PyDict(<<PyStr("k")>>, <<PyInt(1)>>)>>)}

Quoted(s) == "\"" \o s \o "\""

\* ", ".join(texts)
RECURSIVE Join(_)
Join(texts) ==
    IF Len(texts) = 0 THEN ""
    ELSE IF Len(texts) = 1 THEN texts[1]
    ELSE texts[1] \o ", " \o Join(Tail(texts))

\* json.dumps of a dict key: a str key as it is, an int key as its digits.
DumpsKey(k) == IF k.t = "str" THEN Quoted(k.s) ELSE Quoted(ToString(k.n))

\* Mutant of Dumps: a string written without its quotes.
RECURSIVE DumpsBare(_)
DumpsBare(v) ==
    CASE v.t = "str" -> v.s
      [] v.t = "int" -> ToString(v.n)
      [] v.t \in {"list", "tuple"} ->
            "[" \o Join([i \in 1..Len(v.items) |-> DumpsBare(v.items[i])]) \o "]"
      [] v.t = "dict" ->
            "{" \o Join([i \in 1..Len(v.items) |->
                            DumpsKey(v.keys[i]) \o ": " \o DumpsBare(v.items[i])]) \o "}"

\* json.dumps(v, default=str): list and tuple both become a JSON array, every
\* key of a dict becomes a JSON string.
RECURSIVE Dumps(_)
Dumps(v) ==
    CASE v.t = "str" -> Quoted(v.s)
      [] v.t = "int" -> ToString(v.n)
      [] v.t \in {"list", "tuple"} ->
            "[" \o Join([i \in 1..Len(v.items) |-> Dumps(v.items[i])]) \o "]"
      [] v.t = "dict" ->
            "{" \o Join([i \in 1..Len(v.items) |->
                            DumpsKey(v.keys[i]) \o ": " \o Dumps(v.items[i])]) \o "}"

\* A value json.loads can return: a JSON array is read as a list, a JSON
\* object as a dict with str keys.
RECURSIVE Native(_)
Native(v) ==
    /\ v.t # "tuple"
    /\ \A i \in 1..Len(v.keys) : v.keys[i].t = "str"
    /\ \A i \in 1..Len(v.items) : Native(v.items[i])

\* The JSON grammar: the document that denotes the native value v.
RECURSIVE JsonText(_)
JsonText(v) ==
    CASE v.t = "str" -> "\"" \o v.s \o "\""
      [] v.t = "int" -> ToString(v.n)
      [] v.t = "list" ->
            "[" \o Join([i \in 1..Len(v.items) |-> JsonText(v.items[i])]) \o "]"
      [] v.t = "dict" ->
            "{" \o Join([i \in 1..Len(v.items) |->
                            JsonText(v.keys[i]) \o ": " \o JsonText(v.items[i])]) \o "}"

\* json.loads(text): <<v>> for the value the document text denotes, << >>
\* when text is no JSON document (json.JSONDecodeError is raised).
Loads(text) ==
    IF \E v \in PyValues : Native(v) /\ JsonText(v) = text
    THEN <<CHOOSE v \in PyValues : Native(v) /\ JsonText(v) = text>>
    ELSE << >>

\* Stored payloads that are no JSON document.
Malformed == {"{not json"}

(***************************************************************************)
(* CacheManager (app/core/cache.py) over the mock client                   *)
(***************************************************************************)
\* The categories the cache_* / get_cached_* helpers use.
Categories == {"claim", "verdict", "evidence", "analysis", "feed", "trust_score"}

\* The categories and the identifier of the calls explored.
Prefixes == {"claim", "verdict"}

Ids == {"x1"}

\* The `ttl` argument of set_json: << >> is None.
TtlArgs == {<< >>, <<0>>, <<1>>}

\* Mutant of MakeKey: the category left out of the key.
MakeKeyNoCategory(prefix, identifier) == "trustnet:" \o identifier

\* CacheManager._make_key
MakeKey(prefix, identifier) == "trustnet:" \o prefix \o ":" \o identifier

\* Mutant of TtlOrDefault: the ttl passed on as it came.
TtlAsGiven(ttl) == ttl

\* `ttl = ttl or self.default_ttl`
TtlOrDefault(ttl) == IF Truthy(ttl) THEN ttl ELSE <<DefaultTtl>>

\* `if data:` on what client.get returned: None and "" are falsy.
TruthyText(text) == text # None /\ text # ""

\* `mlast` records a manager call: op, prefix, identifier, the value passed
\* (set_json), the value returned (get_json; << >> is None), the bool
\* returned (set_json, delete, exists), whether the call raised to its
\* caller, and whether the cache was initialized when it was made.
NoManagerCall ==
    [op |-> "init", prefix |-> "claim", id |-> "x1", arg |-> PyInt(0), ret |-> << >>,
     ok |-> FALSE, raised |-> FALSE, ready |-> FALSE]

\* `slast` records a call: op, the claim id passed, what it returned
\* ("None", "True", "False", "id", "claim", "list"), whether it raised to
\* its caller, and whether a Firestore client could be had when it was made.
NoServiceCall == [op |-> "init", x |-> "c1", ret |-> None, raised |-> FALSE, ready |-> FALSE]

(***************************************************************************)
(* Logical callers writing one cache key and one document                  *)
(***************************************************************************)
Callers == {"a", "b", "c"}

\* The key and the document all callers write.
SharedKey == "k1"

SharedColl == "evidence"

SharedDoc == "d1"

\* The mappings the callers write.
WriterMaps == {[status |-> "new"], [claim_id |-> "c1"], [claim_id |-> "c2", status |-> "new"]}

CacheWrites == {[kind |-> "cache_set", val |-> v, fields |-> EmptyFields] : v \in Values}

DocWrites ==
    {[kind |-> k, val |-> None, fields |-> f] : k \in {"doc_set", "doc_update"}, f \in WriterMaps}

\* A caller that has issued nothing yet, and one whose write has run.
Idle == [kind |-> "idle", val |-> None, fields |-> EmptyFields]

Done == [kind |-> "done", val |-> None, fields |-> EmptyFields]

(***************************************************************************)
(* Values of the /v1/verify endpoints                                      *)
(***************************************************************************)
\* Request texts, and the ids uuid4 gives to the Claim objects built.
Texts == {"t1", "t2"}

VerificationIds == {"v1", "v2"}

\* create_text_hash: the first 16 hex digits of the text's SHA-256, here the
\* digest's name; different texts of Texts have different digests.
create_text_hash(text) == IF text = "t1" THEN "h1" ELSE "h2"

\* No response yet; a response has the endpoint, the HTTP status, the
\* verification_id asked for or returned ("none" when there is none), the
\* status field of the body ("none" for an error), and for a GET whether
\* the background task of the id had run to its end before. For the
\* endpoints that look a claim up it also has what was stored when the
\* handler ran: whether db_manager had a client (ready), whether the claim
\* existed, and the confidence of the claim's verdict (<< >> without one).
NoResponse == [op |-> "init", status |-> 0, id |-> "none", body |-> "none",
               after_task |-> FALSE, ready |-> FALSE, claim |-> FALSE, verdict |-> << >>]

\* No snapshot held. A snapshot has the document it was taken of, its
\* exists flag, its _data (<<o>>: the dict object o; << >>: a dict of its
\* own, empty) and what to_dict() returned when it was taken.
NoSnap == [taken |-> FALSE, coll |-> "evidence", id |-> "d1", exists |-> FALSE,
           ref |-> << >>, seen |-> EmptyFields]

(***************************************************************************)
(* Values of AnalysisService                                               *)
(***************************************************************************)
AnalysisIds == {"a1", "a2", "a3"}

\* The step durations of _simulate_analysis_steps, added up into progress.
StepDurations == <<10, 30, 25, 20, 15>>

\* An analysis nothing was called for: start_analysis not called ("no"),
\* comprehensive_analysis not entered ("idle"), no record stored (<< >>).
NoJob == [started |-> "no", pc |-> "idle", progress |-> 0, record |-> << >>]

\* `verdict.confidence_score < 0.65`, in hundredths.
ConfidenceGate == 65

Init ==
    /\ data = EmptyDict
    /\ expiry = [x \in {} |-> 0]
    /\ now = 0
    /\ last = NoCall
    /\ written = [x \in {} |-> [at |-> 0, ex |-> << >>, val |-> None]]
    /\ store = [c \in {} |-> << >>]
    /\ dlast = NoStoreCall
    /\ heap = [o \in {} |-> EmptyFields]
    /\ refs = [c \in {} |-> << >>]
    /\ cache_initialized = FALSE
    /\ redis_client = None
    /\ mlast = NoManagerCall
    /\ database_initialized = FALSE
    /\ gcp_initialized = FALSE
    /\ mock_mode = FALSE
    /\ firestore_client = None
    /\ db_client = None
    /\ pc = "fresh"
    /\ error = FALSE
    /\ fresh_start = FALSE
    /\ slast = NoServiceCall
    /\ pending = [c \in Callers |-> Idle]
    /\ ran = << >>
    /\ http = [made |-> {}, issued |-> {}, queued |-> {}, tasks |-> {}, resp |-> NoResponse]
    /\ jobs = [id \in AnalysisIds |-> NoJob]
    /\ snap = NoSnap

Get(key) ==
    /\ LET r == MockGet(key) IN
        /\ data' = r.data
        /\ expiry' = r.expiry
        /\ last' = [op |-> "get", key |-> key, val |-> r.val, n |-> 0,
                    raised |-> r.raised, size |-> Size]
    /\ UNCHANGED <<now, written, cacheOthers>>

Exists(key) ==
    /\ LET r == MockExists(key) IN
        /\ data' = r.data
        /\ expiry' = r.expiry
        /\ last' = [op |-> "exists", key |-> key, val |-> None, n |-> r.n,
                    raised |-> r.raised, size |-> Size]
    /\ UNCHANGED <<now, written, cacheOthers>>

Set(key, value, ex) ==
    /\ LET r == MockSet(key, value, ex) IN
        /\ data' = r.data
        /\ expiry' = r.expiry
    /\ last' = [op |-> "set", key |-> key, val |-> value, n |-> 0, raised |-> FALSE,
                size |-> Size]
    /\ written' = DictPut(written, key, [at |-> now, ex |-> ex, val |-> value])
    /\ UNCHANGED <<now, cacheOthers>>

Delete(key) ==
    /\ LET r == MockDelete(key) IN
        /\ data' = r.data
        /\ expiry' = r.expiry
        /\ last' = [op |-> "delete", key |-> key, val |-> None, n |-> r.n,
                    raised |-> r.raised, size |-> Size]
    /\ written' = DictDel(written, key)
    /\ UNCHANGED <<now, cacheOthers>>

\* The clock advances between calls.
Tick ==
    /\ now < MaxTime
    /\ now' = now + 1
    /\ UNCHANGED <<data, expiry, last, written, cacheOthers>>

CacheNext ==
    \/ \E key \in Keys : Get(key)
    \/ \E key \in Keys : Exists(key)
    \/ \E key \in Keys, value \in Values, ex \in ExArgs : Set(key, value, ex)
    \/ \E key \in Keys : Delete(key)
    \/ Tick

CacheSpec == Init /\ [][CacheNext]_vars

(***************************************************************************)
(* Document-store calls                                                    *)
(***************************************************************************)
\* MockFirestoreClient.collection(name): the handle; creates the collection.
Collection(name) ==
    /\ store' = WithCollection(name)
    /\ dlast' = [NoStoreCall EXCEPT !.op = "collection", !.coll = name]
    /\ UNCHANGED storeOthers

\* collection(coll).document(doc_id).get(); a document handle exists only
\* for a collection whose handle was created.
DocGet(coll, doc_id) ==
    /\ coll \in DOMAIN store
    /\ store' = store
    /\ dlast' = [NoStoreCall EXCEPT !.op = "get", !.coll = coll, !.id = doc_id,
                                    !.before = ItemsGet(store[coll], doc_id),
                                    !.snap = DocumentGet(coll, doc_id)]
    /\ UNCHANGED storeOthers

DocSet(coll, doc_id, fields) ==
    /\ coll \in DOMAIN store
    /\ MayStore(coll, doc_id)
    /\ store' = DocumentSet(coll, doc_id, fields)
    /\ dlast' = [NoStoreCall EXCEPT !.op = "set", !.coll = coll, !.id = doc_id,
                                    !.arg = fields,
                                    !.before = ItemsGet(store[coll], doc_id)]
    /\ UNCHANGED storeOthers

DocUpdate(coll, doc_id, fields) ==
    /\ coll \in DOMAIN store
    /\ MayStore(coll, doc_id)
    /\ store' = DocumentUpdate(coll, doc_id, fields)
    /\ dlast' = [NoStoreCall EXCEPT !.op = "update", !.coll = coll, !.id = doc_id,
                                    !.arg = fields,
                                    !.before = ItemsGet(store[coll], doc_id)]
    /\ UNCHANGED storeOthers

DocDelete(coll, doc_id) ==
    /\ coll \in DOMAIN store
    /\ store' = DocumentDelete(coll, doc_id)
    /\ dlast' = [NoStoreCall EXCEPT !.op = "delete", !.coll = coll, !.id = doc_id,
                                    !.before = ItemsGet(store[coll], doc_id)]
    /\ UNCHANGED storeOthers

\* collection(coll).stream(), consumed to its end.
Stream(coll) ==
    /\ coll \in DOMAIN store
    /\ store' = store
    /\ dlast' = [NoStoreCall EXCEPT !.op = "stream", !.coll = coll,
                                    !.docs = CollectionStream(coll),
                                    !.after = dlast.op]
    /\ UNCHANGED storeOthers

(***************************************************************************)
(* FirestoreManager queries (app/core/database.py)                         *)
(***************************************************************************)
\* `collection.where("claim_id", "==", claim_id)`: MockFirestoreCollection
\* defines document, add and stream and no `where`, so the attribute lookup
\* raises AttributeError before any document is read. The handler's
\* `except Exception` turns it into [] (get_evidence_by_claim) or None, no
\* document (get_verdict_by_claim).
QueryResult(coll, claim_id) == << >>

GetEvidenceByClaim(claim_id) ==
    /\ store' = WithCollection("evidence")
    /\ dlast' = [NoStoreCall EXCEPT !.op = "get_evidence_by_claim", !.coll = "evidence",
                                    !.x = claim_id,
                                    !.docs = QueryResult("evidence", claim_id)]
    /\ UNCHANGED storeOthers

GetVerdictByClaim(claim_id) ==
    /\ store' = WithCollection("verdicts")
    /\ dlast' = [NoStoreCall EXCEPT !.op = "get_verdict_by_claim", !.coll = "verdicts",
                                    !.x = claim_id,
                                    !.docs = QueryResult("verdicts", claim_id)]
    /\ UNCHANGED storeOthers

\* FirestoreManager.get_claim: the claim document, << >> for None.
GetClaim(claim_id) ==
    /\ store' = WithCollection("claims")
    /\ LET doc == MockDocumentSnapshot(claim_id, ItemsGet(WithCollection("claims")["claims"], claim_id))
       IN  dlast' = [NoStoreCall EXCEPT !.op = "get_claim", !.coll = "claims",
                                        !.x = claim_id, !.snap = doc,
                                        !.docs = IF doc.exists
                                                 THEN <<[id |-> claim_id, fields |-> doc.fields]>>
                                                 ELSE << >>]
    /\ UNCHANGED storeOthers

StoreNext ==
    \/ \E name \in Colls : Collection(name)
    \/ \E coll \in Colls, doc_id \in DocIds : DocGet(coll, doc_id)
    \/ \E coll \in Colls, doc_id \in DocIds, fields \in FieldMaps : DocSet(coll, doc_id, fields)
    \/ \E coll \in Colls, doc_id \in DocIds, fields \in FieldMaps : DocUpdate(coll, doc_id, fields)
    \/ \E coll \in Colls, doc_id \in DocIds : DocDelete(coll, doc_id)
    \/ \E coll \in Colls : Stream(coll)
    \/ \E claim_id \in ClaimIds : GetEvidenceByClaim(claim_id)
    \/ \E claim_id \in ClaimIds : GetVerdictByClaim(claim_id)

StoreSpec == Init /\ [][StoreNext]_vars

\* MockFirestoreCollection.add: `doc_id = f"mock_{len(self._data[self.name])}"`
AddId(coll) == "mock_" \o ToString(Len(store[coll]))

\* add: `self._data[self.name][doc_id] = data`
DocAdd(coll, fields) ==
    /\ coll \in DOMAIN store
    /\ MayStore(coll, AddId(coll))
    /\ store' = [store EXCEPT ![coll] = ItemsPut(@, AddId(coll), fields)]
    /\ dlast' = [NoStoreCall EXCEPT !.op = "add", !.coll = coll, !.id = AddId(coll),
                                    !.arg = fields,
                                    !.before = ItemsGet(store[coll], AddId(coll))]
    /\ UNCHANGED storeOthers

\* The ids callers of set and delete use next to add: ids that add makes,
\* and one of their own.
AddDocIds == {"mock_0", "mock_1", "d1"}

\* add, set and delete on the collections.
AddNext ==
    \/ \E name \in Colls : Collection(name)
    \/ \E coll \in Colls, fields \in FieldMaps : DocAdd(coll, fields)
    \/ \E coll \in Colls, doc_id \in AddDocIds, fields \in FieldMaps :
            DocSet(coll, doc_id, fields)
    \/ \E coll \in Colls, doc_id \in AddDocIds : DocDelete(coll, doc_id)

AddSpec == Init /\ [][AddNext]_vars

(***************************************************************************)
(* CacheManager calls                                                      *)
(*                                                                         *)
(* init_redis installs a MockRedisClient in development mode and when the  *)
(* connection to a Redis server fails; a reachable server is outside this  *)
(* model. The manager reads and writes the client's data and expiry; last  *)
(* and written follow the direct client calls of CacheSpec only.           *)
(***************************************************************************)
\* init_redis: a new, empty client.
InitRedisCall ==
    /\ redis_client' = "mock"
    /\ cache_initialized' = TRUE
    /\ data' = EmptyDict
    /\ expiry' = [x \in {} |-> 0]
    /\ mlast' = [NoManagerCall EXCEPT !.op = "init_redis", !.ready = cache_initialized]

\* close_redis: `if _cache_initialized and _redis_client:` the client is
\* closed and dropped, with what it held; otherwise nothing is done.
CloseRedisCall ==
    /\ IF cache_initialized /\ redis_client # None
       THEN /\ redis_client' = None
            /\ cache_initialized' = FALSE
            /\ data' = EmptyDict
            /\ expiry' = [x \in {} |-> 0]
       ELSE UNCHANGED <<redis_client, cache_initialized, data, expiry>>
    /\ mlast' = [NoManagerCall EXCEPT !.op = "close_redis", !.ready = cache_initialized]

InitRedis == InitRedisCall /\ UNCHANGED mgrOthers

CloseRedis == CloseRedisCall /\ UNCHANGED mgrOthers

\* Mutant of GetJsonParse: the decoding error leaves get_json.
GetJsonParseUncaught(text) == [ret |-> Loads(text), raised |-> Loads(text) = << >>]

\* get_json on a truthy payload: `return json.loads(data)`; the handler's
\* `except Exception` turns a decoding error into None.
GetJsonParse(text) == [ret |-> Loads(text), raised |-> FALSE]

\* CacheManager.get_json: what it leaves in the client and what it returns.
\* _get_client raises RuntimeError inside the try when the cache is not
\* initialized: the handler returns None.
ManagerGet(prefix, identifier) ==
    IF ~cache_initialized
    THEN [data |-> data, expiry |-> expiry, ret |-> << >>, raised |-> FALSE]
    ELSE LET r == MockGet(MakeKey(prefix, identifier))
             p == IF TruthyText(r.val) THEN GetJsonParse(r.val)
                  ELSE [ret |-> << >>, raised |-> FALSE]
         IN  [data |-> r.data, expiry |-> r.expiry, ret |-> p.ret, raised |-> p.raised]

GetJson(prefix, identifier) ==
    /\ LET r == ManagerGet(prefix, identifier)
       IN  /\ data' = r.data
           /\ expiry' = r.expiry
           /\ mlast' = [NoManagerCall EXCEPT !.op = "get_json", !.prefix = prefix,
                                             !.id = identifier, !.ready = cache_initialized,
                                             !.ret = r.ret, !.raised = r.raised]
    /\ UNCHANGED <<cache_initialized, redis_client, mgrOthers>>

\* CacheManager.set_json
SetJson(prefix, identifier, v, ttl) ==
    /\ IF ~cache_initialized
       THEN /\ mlast' = [NoManagerCall EXCEPT !.op = "set_json", !.prefix = prefix,
                                              !.id = identifier, !.arg = v,
                                              !.ready = FALSE, !.ok = FALSE]
            /\ UNCHANGED <<data, expiry>>
       ELSE LET r == MockSet(MakeKey(prefix, identifier), Dumps(v), TtlOrDefault(ttl))
            IN  /\ data' = r.data
                /\ expiry' = r.expiry
                /\ mlast' = [NoManagerCall EXCEPT !.op = "set_json", !.prefix = prefix,
                                                  !.id = identifier, !.arg = v,
                                                  !.ready = TRUE, !.ok = TRUE]
    /\ UNCHANGED <<cache_initialized, redis_client, mgrOthers>>

\* CacheManager.delete: `return result > 0`
ManagerDelete(prefix, identifier) ==
    /\ IF ~cache_initialized
       THEN /\ mlast' = [NoManagerCall EXCEPT !.op = "delete", !.prefix = prefix,
                                              !.id = identifier, !.ready = FALSE]
            /\ UNCHANGED <<data, expiry>>
       ELSE LET r == MockDelete(MakeKey(prefix, identifier))
            IN  /\ data' = r.data
                /\ expiry' = r.expiry
                /\ mlast' = [NoManagerCall EXCEPT !.op = "delete", !.prefix = prefix,
                                                  !.id = identifier, !.ready = TRUE,
                                                  !.ok = (r.n > 0)]
    /\ UNCHANGED <<cache_initialized, redis_client, mgrOthers>>

\* CacheManager.exists: `return result > 0`
ManagerExists(prefix, identifier) ==
    /\ IF ~cache_initialized
       THEN /\ mlast' = [NoManagerCall EXCEPT !.op = "exists", !.prefix = prefix,
                                              !.id = identifier, !.ready = FALSE]
            /\ UNCHANGED <<data, expiry>>
       ELSE LET r == MockExists(MakeKey(prefix, identifier))
            IN  /\ data' = r.data
                /\ expiry' = r.expiry
                /\ mlast' = [NoManagerCall EXCEPT !.op = "exists", !.prefix = prefix,
                                                  !.id = identifier, !.ready = TRUE,
                                                  !.ok = (r.n > 0)]
    /\ UNCHANGED <<cache_initialized, redis_client, mgrOthers>>

\* Another holder of the client stores a payload under a key of the
\* manager's: `client.set(key, payload)`.
RawSet(prefix, identifier, payload) ==
    /\ redis_client = "mock"
    /\ LET r == MockSet(MakeKey(prefix, identifier), payload, << >>)
       IN  /\ data' = r.data
           /\ expiry' = r.expiry
    /\ mlast' = [NoManagerCall EXCEPT !.op = "raw_set", !.prefix = prefix,
                                      !.id = identifier, !.ready = cache_initialized]
    /\ UNCHANGED <<cache_initialized, redis_client, mgrOthers>>

ManagerNext ==
    \/ InitRedis
    \/ CloseRedis
    \/ \E prefix \in Prefixes, identifier \in Ids : GetJson(prefix, identifier)
    \/ \E prefix \in Prefixes, identifier \in Ids, v \in PyValues, ttl \in TtlArgs :
            SetJson(prefix, identifier, v, ttl)
    \/ \E prefix \in Prefixes, identifier \in Ids : ManagerDelete(prefix, identifier)
    \/ \E prefix \in Prefixes, identifier \in Ids : ManagerExists(prefix, identifier)
    \/ \E prefix \in Prefixes, identifier \in Ids, payload \in Malformed \cup {""} :
            RawSet(prefix, identifier, payload)

ManagerSpec == Init /\ [][ManagerNext]_vars

\* set_json with every kind of ttl (None, 0, positive, negative) as the
\* clock advances.
TtlInputs == TtlArgs \cup {<<-1>>}

TtlNext ==
    \/ InitRedis
    \/ Tick
    \/ \E prefix \in Prefixes, identifier \in Ids, ttl \in TtlInputs :
            SetJson(prefix, identifier, PyInt(1), ttl)
    \/ \E prefix \in Prefixes, identifier \in Ids : GetJson(prefix, identifier)

TtlSpec == Init /\ [][TtlNext]_vars

(***************************************************************************)
(* Initialization and shutdown (main.py lifespan, init_* / close_* of      *)
(* app/core) and FirestoreManager (app/core/database.py)                   *)
(*                                                                         *)
(* Whether the real Google clients can be built, and whether the real      *)
(* Firestore client closes cleanly, is the environment's choice. A         *)
(* FirestoreManager call is followed when it ends at the mock client or    *)
(* finds no client. store is the data of the client db_manager holds.      *)
(***************************************************************************)
\* Mutant of InitializeCall: no early return on an initialized manager.
InitializeCallAgain(real_ok) ==
    IF mock_mode
    THEN /\ firestore_client' = "mock"
         /\ gcp_initialized' = TRUE
         /\ mock_mode' = mock_mode
    ELSE IF real_ok
    THEN /\ firestore_client' = "real"
         /\ gcp_initialized' = TRUE
         /\ mock_mode' = mock_mode
    ELSE /\ mock_mode' = TRUE
         /\ firestore_client' = "mock"
         /\ gcp_initialized' = TRUE

\* GCPClientManager.initialize; real_ok: _init_real_clients does not raise.
InitializeCall(real_ok) ==
    IF gcp_initialized
    THEN UNCHANGED <<gcp_initialized, mock_mode, firestore_client>>
    ELSE IF mock_mode
    THEN /\ firestore_client' = "mock"
         /\ gcp_initialized' = TRUE
         /\ mock_mode' = mock_mode
    ELSE IF real_ok
    THEN /\ firestore_client' = "real"
         /\ gcp_initialized' = TRUE
         /\ mock_mode' = mock_mode
    ELSE /\ mock_mode' = TRUE
         /\ firestore_client' = "mock"
         /\ gcp_initialized' = TRUE

\* GCPClientManager.close; close_ok: the real client's close() does not raise.
CloseGcpCall(close_ok) ==
    /\ gcp_initialized' =
            IF gcp_initialized /\ ~mock_mode /\ firestore_client # None /\ ~close_ok
            THEN TRUE
            ELSE FALSE
    /\ UNCHANGED <<mock_mode, firestore_client>>

\* get_firestore_client raises RuntimeError("GCP clients not initialized").
GetFirestoreClientRaises == ~gcp_initialized

\* init_database: the RuntimeError of get_firestore_client is logged and
\* raised again; otherwise the flag is set.
InitDatabaseCall ==
    database_initialized' = IF GetFirestoreClientRaises THEN database_initialized ELSE TRUE

\* Mutant of CloseDatabaseCall: the flag is left as it is.
CloseDatabaseCallKept == database_initialized' = database_initialized

\* close_database
CloseDatabaseCall == database_initialized' = FALSE

\* FirestoreManager._get_client: the cached client, else the one
\* get_firestore_client returns; "None" when that raises.
DbClient ==
    IF db_client # None THEN db_client
    ELSE IF GetFirestoreClientRaises THEN None
    ELSE firestore_client

\* A process is configured before anything of it runs: MOCK_GOOGLE_SERVICES.
Configure(mock) ==
    /\ pc = "fresh"
    /\ slast.op = "init"
    /\ mlast.op = "init"
    /\ mock_mode' = mock
    /\ UNCHANGED <<database_initialized, gcp_initialized, firestore_client, db_client,
                   pc, error, fresh_start, slast, store, data, expiry, mgrVars, svcOthers>>

\* init_gcp_clients()
InitGcpClients(real_ok) ==
    /\ InitializeCall(real_ok)
    /\ slast' = [NoServiceCall EXCEPT !.op = "init_gcp_clients", !.ready = gcp_initialized]
    /\ UNCHANGED <<database_initialized, db_client, pc, error, fresh_start,
                   store, data, expiry, mgrVars, svcOthers>>

\* close_gcp_clients()
CloseGcpClients(close_ok) ==
    /\ CloseGcpCall(close_ok)
    /\ slast' = [NoServiceCall EXCEPT !.op = "close_gcp_clients", !.ready = gcp_initialized]
    /\ UNCHANGED <<database_initialized, db_client, pc, error, fresh_start,
                   store, data, expiry, mgrVars, svcOthers>>

\* init_database()
InitDatabase ==
    /\ InitDatabaseCall
    /\ slast' = [NoServiceCall EXCEPT !.op = "init_database", !.ready = gcp_initialized,
                                      !.raised = GetFirestoreClientRaises]
    /\ UNCHANGED <<gcp_initialized, mock_mode, firestore_client, db_client, pc, error,
                   fresh_start, store, data, expiry, mgrVars, svcOthers>>

\* close_database()
CloseDatabase ==
    /\ CloseDatabaseCall
    /\ slast' = [NoServiceCall EXCEPT !.op = "close_database", !.ready = gcp_initialized]
    /\ UNCHANGED <<gcp_initialized, mock_mode, firestore_client, db_client, pc, error,
                   fresh_start, store, data, expiry, mgrVars, svcOthers>>

\* What every FirestoreManager method leaves alone.
DbFrame ==
    UNCHANGED <<database_initialized, gcp_initialized, mock_mode, firestore_client,
                pc, error, fresh_start, data, expiry, mgrVars, svcOthers>>

\* The claims collection after `client.collection("claims")`.
Claims == WithCollection("claims")["claims"]

\* The document of a Claim: claim.dict().
ClaimDoc(claim_id) == [claim_id |-> claim_id]

\* FirestoreManager.create_claim: an exception is logged and raised again.
CreateClaim(claim_id) ==
    /\ DbClient # "real"
    /\ db_client' = DbClient
    /\ IF DbClient = None
       THEN /\ store' = store
            /\ slast' = [NoServiceCall EXCEPT !.op = "create_claim", !.x = claim_id,
                                              !.raised = TRUE]
       ELSE /\ store' = [WithCollection("claims") EXCEPT
                            !["claims"] = ItemsPut(@, claim_id, ClaimDoc(claim_id))]
            /\ slast' = [NoServiceCall EXCEPT !.op = "create_claim", !.x = claim_id,
                                              !.ready = TRUE, !.ret = "id"]
    /\ DbFrame

\* FirestoreManager.get_claim: an exception is logged and raised again.
GetClaimOf(claim_id) ==
    /\ DbClient # "real"
    /\ db_client' = DbClient
    /\ IF DbClient = None
       THEN /\ store' = store
            /\ slast' = [NoServiceCall EXCEPT !.op = "get_claim", !.x = claim_id,
                                              !.raised = TRUE]
       ELSE /\ store' = WithCollection("claims")
            /\ slast' = [NoServiceCall EXCEPT
                            !.op = "get_claim", !.x = claim_id, !.ready = TRUE,
                            !.ret = IF MockDocumentSnapshot(claim_id,
                                                            ItemsGet(Claims, claim_id)).exists
                                    THEN "claim" ELSE None]
    /\ DbFrame

\* `updates['updated_at'] = datetime.utcnow()` on the mapping passed.
WithUpdatedAt(updates) ==
    [f \in (DOMAIN updates) \cup {"updated_at"} |->
        IF f = "updated_at" THEN ToString(now) ELSE updates[f]]

\* FirestoreManager.update_claim: an exception is logged, the call returns False.
UpdateClaim(claim_id, updates) ==
    /\ DbClient # "real"
    /\ db_client' = DbClient
    /\ IF DbClient = None
       THEN /\ store' = store
            /\ slast' = [NoServiceCall EXCEPT !.op = "update_claim", !.x = claim_id,
                                              !.ret = "False"]
       ELSE /\ store' = [WithCollection("claims") EXCEPT
                            !["claims"] =
                                ItemsPut(@, claim_id,
                                         IF HasKey(@, claim_id)
                                         THEN DictUpdate(ItemsGet(@, claim_id)[1],
                                                         WithUpdatedAt(updates))
                                         ELSE WithUpdatedAt(updates))]
            /\ slast' = [NoServiceCall EXCEPT !.op = "update_claim", !.x = claim_id,
                                              !.ready = TRUE, !.ret = "True"]
    /\ DbFrame

\* FirestoreManager.get_evidence_by_claim: an exception is logged, the call
\* returns []. With the mock client the exception is the AttributeError of
\* `where`, raised after the collection handle was made.
EvidenceByClaim(claim_id) ==
    /\ DbClient # "real"
    /\ db_client' = DbClient
    /\ store' = IF DbClient = None THEN store ELSE WithCollection("evidence")
    /\ slast' = [NoServiceCall EXCEPT !.op = "get_evidence_by_claim", !.x = claim_id,
                                      !.ready = (DbClient # None), !.ret = "list"]
    /\ DbFrame

(***************************************************************************)
(* main.py lifespan: startup inside `try`, the three closes in `finally`.  *)
(***************************************************************************)
StartupSteps == {"init_database", "init_redis", "init_gcp"}

\* What no lifespan step touches.
LifespanFrame == UNCHANGED <<db_client, slast, store, svcOthers>>

\* The application starts.
LifespanStart ==
    /\ pc = "fresh"
    /\ pc' = "init_database"
    /\ fresh_start' = (~database_initialized /\ ~cache_initialized /\ ~gcp_initialized)
    /\ error' = FALSE
    /\ UNCHANGED <<database_initialized, gcp_initialized, mock_mode, firestore_client,
                   data, expiry, mgrVars>>
    /\ LifespanFrame

\* `await init_database()`: when it raises, control goes to `finally`.
LifespanInitDatabase ==
    /\ pc = "init_database"
    /\ InitDatabaseCall
    /\ error' = GetFirestoreClientRaises
    /\ pc' = IF GetFirestoreClientRaises THEN "close_gcp" ELSE "init_redis"
    /\ UNCHANGED <<gcp_initialized, mock_mode, firestore_client, fresh_start,
                   data, expiry, mgrVars>>
    /\ LifespanFrame

\* `await init_redis()`
LifespanInitRedis ==
    /\ pc = "init_redis"
    /\ InitRedisCall
    /\ pc' = "init_gcp"
    /\ UNCHANGED <<database_initialized, gcp_initialized, mock_mode, firestore_client,
                   error, fresh_start>>
    /\ LifespanFrame

\* `await init_gcp_clients()`, then `yield`: the application serves.
LifespanInitGcp(real_ok) ==
    /\ pc = "init_gcp"
    /\ InitializeCall(real_ok)
    /\ pc' = "serving"
    /\ UNCHANGED <<database_initialized, error, fresh_start, data, expiry, mgrVars>>
    /\ LifespanFrame

\* The application is told to stop: control goes to `finally`.
LifespanShutdown ==
    /\ pc = "serving"
    /\ pc' = "close_gcp"
    /\ UNCHANGED <<database_initialized, gcp_initialized, mock_mode, firestore_client,
                   error, fresh_start, data, expiry, mgrVars>>
    /\ LifespanFrame

\* `await close_gcp_clients()`
LifespanCloseGcp(close_ok) ==
    /\ pc = "close_gcp"
    /\ CloseGcpCall(close_ok)
    /\ pc' = "close_redis"
    /\ UNCHANGED <<database_initialized, error, fresh_start, data, expiry, mgrVars>>
    /\ LifespanFrame

\* `await close_redis()`
LifespanCloseRedis ==
    /\ pc = "close_redis"
    /\ CloseRedisCall
    /\ pc' = "close_database"
    /\ UNCHANGED <<database_initialized, gcp_initialized, mock_mode, firestore_client,
                   error, fresh_start>>
    /\ LifespanFrame

\* `await close_database()`; lifespan ends.
LifespanCloseDatabase ==
    /\ pc = "close_database"
    /\ CloseDatabaseCall
    /\ pc' = "stopped"
    /\ UNCHANGED <<gcp_initialized, mock_mode, firestore_client, error, fresh_start,
                   data, expiry, mgrVars>>
    /\ LifespanFrame

\* The values of the calls explored here.
SampleClaims == {"c1"}

SampleUpdates == {[status |-> "new"]}

\* Code outside lifespan (a script, a test) calls the init and close
\* functions; the managers are called by such code and while the
\* application serves.
Standalone == pc = "fresh"

Callable == pc \in {"fresh", "serving"}

ServiceNext ==
    \/ \E mock \in BOOLEAN : Configure(mock)
    \/ Standalone /\ InitDatabase
    \/ Standalone /\ CloseDatabase
    \/ Standalone /\ InitRedis
    \/ Standalone /\ CloseRedis
    \/ Standalone /\ \E real_ok \in BOOLEAN : InitGcpClients(real_ok)
    \/ Standalone /\ \E close_ok \in BOOLEAN : CloseGcpClients(close_ok)
    \/ Callable /\ \E claim_id \in SampleClaims : CreateClaim(claim_id)
    \/ Callable /\ \E claim_id \in SampleClaims : GetClaimOf(claim_id)
    \/ Callable /\ \E claim_id \in SampleClaims, updates \in SampleUpdates :
                        UpdateClaim(claim_id, updates)
    \/ Callable /\ \E claim_id \in SampleClaims : EvidenceByClaim(claim_id)
    \/ Callable /\ GetJson("claim", "x1")
    \/ Callable /\ SetJson("claim", "x1", PyInt(1), << >>)
    \/ Callable /\ ManagerDelete("claim", "x1")
    \/ Callable /\ ManagerExists("claim", "x1")
    \/ LifespanStart
    \/ LifespanInitDatabase
    \/ LifespanInitRedis
    \/ \E real_ok \in BOOLEAN : LifespanInitGcp(real_ok)
    \/ LifespanShutdown
    \/ \E close_ok \in BOOLEAN : LifespanCloseGcp(close_ok)
    \/ LifespanCloseRedis
    \/ LifespanCloseDatabase

ServiceSpec == Init /\ [][ServiceNext]_vars

\* The statements of lifespan before `yield` and in `finally`. The event
\* loop runs the lifespan coroutine from one await to the next: none of
\* these waits for anything outside the process.
LifespanRuns ==
    \/ LifespanInitDatabase
    \/ LifespanInitRedis
    \/ \E real_ok \in BOOLEAN : LifespanInitGcp(real_ok)
    \/ \E close_ok \in BOOLEAN : LifespanCloseGcp(close_ok)
    \/ LifespanCloseRedis
    \/ LifespanCloseDatabase

LifespanSpec == ServiceSpec /\ WF_vars(LifespanRuns)

(***************************************************************************)
(* POST /v1/verify/ and GET /v1/verify/{verification_id}                   *)
(*                                                                         *)
(* The handlers run while the application serves and in a process that    *)
(* did not enter lifespan (a test client that is not used as a context     *)
(* manager). With the mock cache and the mock document store no call of a  *)
(* handler suspends, so a handler is one step; the background task of a    *)
(* queued request runs after the response was sent. Requests are followed  *)
(* when db_manager ends at the mock client or finds no client.             *)
(***************************************************************************)
\* `analysis_service.analyze_content(claim)`: AnalysisService defines no
\* analyze_content, so the attribute lookup raises AttributeError.
AnalyzeContentRaises == TRUE

\* `if cached_result:` on the value get_json returned.
PyTruthy(v) ==
    CASE v.t = "str" -> v.s # ""
      [] v.t = "int" -> v.n # 0
      [] OTHER -> Len(v.items) > 0

\* cached_result[key], << >> when the subscript raises.
PyItem(v, key) ==
    IF v.t = "dict" /\ \E i \in 1..Len(v.keys) : v.keys[i] = PyStr(key)
    THEN <<v.items[CHOOSE i \in 1..Len(v.keys) : v.keys[i] = PyStr(key)]>>
    ELSE << >>

\* The body cached for a text: verification_id and the card.
CacheData(id) ==
    PyDict(<<PyStr("verification_id"), PyStr("verification_card")>>,
           <<PyStr(id), PyDict(<<PyStr("k")>>, <<PyInt(1)>>)>>)

\* Mutant of StoreClaim: the claim is not written.
StoreClaimNowhere(id) == WithCollection("claims")

\* `await db_manager.create_claim(claim)` on the mock client.
StoreClaim(id) ==
    [WithCollection("claims") EXCEPT !["claims"] = ItemsPut(@, id, ClaimDoc(id))]

\* The cache after cache_analysis_result(text_hash, cache_data, ttl=3600).
CacheAnalysis(d, e, text_hash, id) ==
    IF ~cache_initialized
    THEN [data |-> d, expiry |-> e]
    ELSE [data |-> DictPut(d, MakeKey("analysis", text_hash), Dumps(CacheData(id))),
          expiry |-> [k \in (DOMAIN e) \cup {MakeKey("analysis", text_hash)} |->
                        IF k = MakeKey("analysis", text_hash) THEN now + 3600 ELSE e[k]]]

Respond(op, status, id, body) ==
    [NoResponse EXCEPT !.op = op, !.status = status, !.id = id, !.body = body]

\* The confidence of the verdict stored for a claim, << >> without one.
StoredVerdict(claim_id) ==
    IF "verdicts" \in DOMAIN store
          /\ \E i \in 1..Len(store["verdicts"]) :
                store["verdicts"][i].fields.claim_id = claim_id
    THEN <<store["verdicts"][CHOOSE i \in 1..Len(store["verdicts"]) :
                store["verdicts"][i].fields.claim_id = claim_id].fields.confidence_score>>
    ELSE << >>

\* What is stored for an id when a handler looks it up.
Lookup(r, id) ==
    [r EXCEPT !.ready = DbClient # None,
              !.claim = "claims" \in DOMAIN store
                            /\ MockDocumentSnapshot(id, ItemsGet(store["claims"], id)).exists,
              !.verdict = StoredVerdict(id)]

\* `client.collection(name)` on the mock client, after other calls of one
\* handler: the collection exists from then on.
AndCollection(s, name) ==
    IF name \in DOMAIN s
    THEN s
    ELSE [c \in (DOMAIN s) \cup {name} |-> IF c = name THEN << >> ELSE s[c]]

\* The background task of a queued id has run to its end.
TaskEnded(id) == id \in http.queued /\ ~\E task \in http.tasks : task[1] = id

\* db_manager.get_verdict_by_claim: the first document of the query, << >>
\* for None.
VerdictByClaim(claim_id) == QueryResult("verdicts", claim_id)

\* verify_content. id is the uuid4 of the Claim built when the cache has no
\* result; should_queue is the test on the request's length, urls and
\* priority. Every exception leaves as HTTP 500.
PostVerify(text, should_queue, id) ==
    /\ Callable
    /\ DbClient # "real"
    /\ id \notin http.made
    /\ LET cached == ManagerGet("analysis", create_text_hash(text))
           hit    == cached.ret # << >> /\ PyTruthy(cached.ret[1])
           vid    == IF hit THEN PyItem(cached.ret[1], "verification_id") ELSE << >>
           card   == IF hit THEN PyItem(cached.ret[1], "verification_card") ELSE << >>
       IN  IF hit
           THEN /\ data' = cached.data
                /\ expiry' = cached.expiry
                /\ UNCHANGED <<store, db_client>>
                /\ IF vid # << >> /\ card # << >> /\ vid[1].t = "str" /\ card[1].t = "dict"
                   THEN http' = [http EXCEPT !.issued = @ \cup {vid[1].s},
                                             !.resp = Respond("post", 200, vid[1].s, "completed")]
                   ELSE http' = [http EXCEPT !.resp = Respond("post", 500, "none", "none")]
           ELSE IF DbClient = None
           THEN \* create_claim raises RuntimeError
                /\ data' = cached.data
                /\ expiry' = cached.expiry
                /\ UNCHANGED <<store, db_client>>
                /\ http' = [http EXCEPT !.made = @ \cup {id},
                                        !.resp = Respond("post", 500, "none", "none")]
           ELSE /\ store' = StoreClaim(id)
                /\ db_client' = DbClient
                /\ IF should_queue
                   THEN /\ data' = cached.data
                        /\ expiry' = cached.expiry
                        /\ http' = [http EXCEPT !.made = @ \cup {id},
                                                !.issued = @ \cup {id},
                                                !.queued = @ \cup {id},
                                                !.tasks = @ \cup {<<id, text>>},
                                                !.resp = Respond("post", 200, id, "analyzing")]
                   ELSE IF AnalyzeContentRaises
                   THEN /\ data' = cached.data
                        /\ expiry' = cached.expiry
                        /\ http' = [http EXCEPT !.made = @ \cup {id},
                                                !.resp = Respond("post", 500, "none", "none")]
                   ELSE /\ data' = CacheAnalysis(cached.data, cached.expiry,
                                                 create_text_hash(text), id).data
                        /\ expiry' = CacheAnalysis(cached.data, cached.expiry,
                                                   create_text_hash(text), id).expiry
                        /\ http' = [http EXCEPT !.made = @ \cup {id},
                                                !.issued = @ \cup {id},
                                                !.resp = Respond("post", 200, id, "completed")]
    /\ UNCHANGED httpOthers

\* process_verification_async(claim_id, text_hash): every exception is
\* logged and ends the task.
ProcessVerificationAsync(task) ==
    /\ Callable
    /\ task \in http.tasks
    /\ DbClient # "real"
    /\ http' = [http EXCEPT !.tasks = @ \ {task}]
    /\ IF DbClient = None
       THEN UNCHANGED <<store, db_client, data, expiry>>
       ELSE /\ store' = WithCollection("claims")
            /\ db_client' = DbClient
            /\ IF ~MockDocumentSnapshot(task[1], ItemsGet(Claims, task[1])).exists
                  \/ AnalyzeContentRaises
               THEN UNCHANGED <<data, expiry>>
               ELSE /\ data' = CacheAnalysis(data, expiry, create_text_hash(task[2]),
                                             task[1]).data
                    /\ expiry' = CacheAnalysis(data, expiry, create_text_hash(task[2]),
                                               task[1]).expiry
    /\ UNCHANGED httpOthers

\* `analysis_service.create_verification_card(verdict)`: AnalysisService
\* defines no create_verification_card, the attribute lookup raises.
CreateVerificationCardRaises == TRUE

\* The body of get_verification_result once get_claim returned a claim:
\* QuarantineRequired below the confidence gate, VerificationComplete at or
\* above it, ClaimResult(status="processing") without a verdict.
VerificationResult(verification_id) ==
    LET verdict == VerdictByClaim(verification_id)
    IN  IF verdict = << >>
        THEN Respond("get", 200, verification_id, "processing")
        ELSE IF verdict[1].fields.confidence_score < ConfidenceGate
        THEN Respond("get", 200, verification_id, "needs_review")
        ELSE IF CreateVerificationCardRaises
        THEN Respond("get", 500, verification_id, "none")
        ELSE Respond("get", 200, verification_id, "completed")

\* get_verification_result: 404 when get_claim returns None; an exception of
\* get_claim is HTTP 500.
GetVerificationResult(verification_id) ==
    /\ Callable
    /\ DbClient # "real"
    /\ IF DbClient = None
       THEN /\ UNCHANGED <<store, db_client>>
            /\ http' = [http EXCEPT !.resp =
                    [Lookup(Respond("get", 500, verification_id, "none"), verification_id)
                        EXCEPT !.after_task = TaskEnded(verification_id)]]
       ELSE /\ db_client' = DbClient
            /\ IF MockDocumentSnapshot(verification_id,
                                       ItemsGet(Claims, verification_id)).exists
               THEN /\ store' = AndCollection(WithCollection("claims"), "verdicts")
                    /\ http' = [http EXCEPT !.resp =
                            [Lookup(VerificationResult(verification_id), verification_id)
                                EXCEPT !.after_task = TaskEnded(verification_id)]]
               ELSE /\ store' = WithCollection("claims")
                    /\ http' = [http EXCEPT !.resp =
                            [Lookup(Respond("get", 404, verification_id, "none"),
                                    verification_id)
                                EXCEPT !.after_task = TaskEnded(verification_id)]]
    /\ UNCHANGED <<data, expiry, httpOthers>>

(***************************************************************************)
(* The quarantine gate: POST /v1/quarantine/{verification_id}/verdict, and *)
(* db_manager.create_verdict, which stores the verdict both endpoints ask  *)
(* for. Confidence scores are in hundredths.                               *)
(***************************************************************************)
VerdictIds == {"w1"}

Scores == {50, 65}

\* verdict.dict(): the fields the endpoints read.
VerdictDoc(claim_id, score) == [claim_id |-> claim_id, confidence_score |-> score]

\* FirestoreManager.create_verdict: an exception is logged and raised again.
CreateVerdict(verdict_id, claim_id, score) ==
    /\ Callable
    /\ DbClient # "real"
    /\ StoredVerdict(claim_id) = << >>
    /\ db_client' = DbClient
    /\ IF DbClient = None
       THEN /\ store' = store
            /\ slast' = [NoServiceCall EXCEPT !.op = "create_verdict", !.x = claim_id,
                                              !.raised = TRUE]
       ELSE /\ store' = [WithCollection("verdicts") EXCEPT
                            !["verdicts"] = ItemsPut(@, verdict_id,
                                                     VerdictDoc(claim_id, score))]
            /\ slast' = [NoServiceCall EXCEPT !.op = "create_verdict", !.x = claim_id,
                                              !.ready = TRUE, !.ret = "id"]
    /\ DbFrame

\* `quarantine_service.process_user_verdict(verification_id, user_verdict,
\* claim, verdict)`: the method takes two arguments, the call raises
\* TypeError.
ProcessUserVerdictRaises == TRUE

\* The answer of submit_quarantine_verdict once get_claim returned a claim:
\* 404 without a verdict, 400 at or above the confidence gate.
QuarantineVerdictResult(verification_id) ==
    LET verdict == VerdictByClaim(verification_id)
    IN  IF verdict = << >>
        THEN Respond("quarantine", 404, verification_id, "none")
        ELSE IF verdict[1].fields.confidence_score >= ConfidenceGate
        THEN Respond("quarantine", 400, verification_id, "none")
        ELSE IF ProcessUserVerdictRaises
        THEN Respond("quarantine", 500, verification_id, "none")
        ELSE Respond("quarantine", 200, verification_id, "accepted")

\* submit_quarantine_verdict
SubmitQuarantineVerdict(verification_id) ==
    /\ Callable
    /\ DbClient # "real"
    /\ IF DbClient = None
       THEN /\ UNCHANGED <<store, db_client>>
            /\ http' = [http EXCEPT !.resp =
                    Lookup(Respond("quarantine", 500, verification_id, "none"),
                           verification_id)]
       ELSE /\ db_client' = DbClient
            /\ IF MockDocumentSnapshot(verification_id,
                                       ItemsGet(Claims, verification_id)).exists
               THEN /\ store' = AndCollection(WithCollection("claims"), "verdicts")
                    /\ http' = [http EXCEPT !.resp =
                            Lookup(QuarantineVerdictResult(verification_id),
                                   verification_id)]
               ELSE /\ store' = WithCollection("claims")
                    /\ http' = [http EXCEPT !.resp =
                            Lookup(Respond("quarantine", 404, verification_id, "none"),
                                   verification_id)]
    /\ UNCHANGED <<data, expiry, httpOthers>>

GateNext ==
    \/ \E mock \in BOOLEAN : Configure(mock)
    \/ Standalone /\ \E real_ok \in BOOLEAN : InitGcpClients(real_ok)
    \/ Standalone /\ \E close_ok \in BOOLEAN : CloseGcpClients(close_ok)
    \/ \E claim_id \in VerificationIds : Callable /\ CreateClaim(claim_id)
    \/ \E verdict_id \in VerdictIds, claim_id \in VerificationIds, score \in Scores :
            CreateVerdict(verdict_id, claim_id, score)
    \/ \E verification_id \in VerificationIds : GetVerificationResult(verification_id)
    \/ \E verification_id \in VerificationIds : SubmitQuarantineVerdict(verification_id)

GateSpec == Init /\ [][GateNext]_vars

VerifyNext ==
    \/ \E mock \in BOOLEAN : Configure(mock)
    \/ Standalone /\ InitDatabase
    \/ Standalone /\ CloseDatabase
    \/ Standalone /\ InitRedis
    \/ Standalone /\ CloseRedis
    \/ Standalone /\ \E real_ok \in BOOLEAN : InitGcpClients(real_ok)
    \/ Standalone /\ \E close_ok \in BOOLEAN : CloseGcpClients(close_ok)
    \/ LifespanStart
    \/ LifespanInitDatabase
    \/ LifespanInitRedis
    \/ \E real_ok \in BOOLEAN : LifespanInitGcp(real_ok)
    \/ LifespanShutdown
    \/ \E close_ok \in BOOLEAN : LifespanCloseGcp(close_ok)
    \/ LifespanCloseRedis
    \/ LifespanCloseDatabase
    \/ \E text \in Texts, should_queue \in BOOLEAN, id \in VerificationIds :
            PostVerify(text, should_queue, id)
    \/ \E task \in VerificationIds \X Texts : ProcessVerificationAsync(task)
    \/ \E verification_id \in VerificationIds : GetVerificationResult(verification_id)

VerifySpec == Init /\ [][VerifyNext]_vars

(***************************************************************************)
(* AnalysisService.start_analysis and comprehensive_analysis               *)
(*                                                                         *)
(* Both keep the analysis record through db_manager.store_analysis and     *)
(* db_manager.update_analysis. db_manager is the FirestoreManager of       *)
(* app/core/database.py, which defines neither: the attribute lookup       *)
(* raises AttributeError before anything is stored. The position of        *)
(* comprehensive_analysis is followed from call to call.                   *)
(***************************************************************************)
\* `db_manager.store_analysis(...)` / `db_manager.update_analysis(...)`
DbManagerHas(method) == method \in {"create_claim", "get_claim", "update_claim",
                                    "create_evidence", "get_evidence_by_claim",
                                    "create_verdict", "get_verdict_by_claim", "get_verdict",
                                    "create_feedback", "get_feedback_by_verdict",
                                    "get_educational_content", "get_trending_patterns"}

\* start_analysis: the record is built, store_analysis is looked up; the
\* exception is logged and raised again.
StartAnalysis(id) ==
    /\ jobs[id].started = "no"
    /\ ~DbManagerHas("store_analysis")
    /\ jobs' = [jobs EXCEPT ![id].started = "raised"]
    /\ UNCHANGED jobOthers

\* comprehensive_analysis is entered: `progress = 0` in
\* _simulate_analysis_steps.
ComprehensiveAnalysis(id) ==
    /\ jobs[id].pc = "idle"
    /\ jobs' = [jobs EXCEPT ![id].pc = "steps", ![id].progress = 0]
    /\ UNCHANGED jobOthers

\* The first pass of the loop: `progress += step_duration`, then
\* update_analysis is looked up and control goes to `except Exception`.
SimulateAnalysisStep(id) ==
    /\ jobs[id].pc = "steps"
    /\ ~DbManagerHas("update_analysis")
    /\ jobs' = [jobs EXCEPT ![id].progress = @ + StepDurations[1], ![id].pc = "except"]
    /\ UNCHANGED jobOthers

\* The handler: update_analysis(.., {"status": "failed", ..}) is looked up,
\* the AttributeError leaves comprehensive_analysis.
RecordFailure(id) ==
    /\ jobs[id].pc = "except"
    /\ ~DbManagerHas("update_analysis")
    /\ jobs' = [jobs EXCEPT ![id].pc = "raised"]
    /\ UNCHANGED jobOthers

AnalysisNext ==
    \/ \E id \in AnalysisIds : StartAnalysis(id)
    \/ \E id \in AnalysisIds : ComprehensiveAnalysis(id)
    \/ \E id \in AnalysisIds : SimulateAnalysisStep(id)
    \/ \E id \in AnalysisIds : RecordFailure(id)

AnalysisSpec == Init /\ [][AnalysisNext]_vars

(***************************************************************************)
(* Concurrent writers. set and update of both mocks are coroutines that    *)
(* never await, so the event loop runs each of them from its first to its  *)
(* last statement without another task in between: a write is one step,    *)
(* and the writes issued by the callers run in any order.                  *)
(***************************************************************************)
\* A caller issues a write; for a document it takes the handle
\* client.collection(..).document(..) first.
Issue(c, w) ==
    /\ pending[c] = Idle
    /\ pending' = [pending EXCEPT ![c] = w]
    /\ store' = IF w.kind = "cache_set" THEN store ELSE WithCollection(SharedColl)
    /\ UNCHANGED <<data, ran, writerOthers>>

\* The event loop runs the caller's `await client.set(key, value)`.
ApplyCacheSet(c) ==
    /\ pending[c].kind = "cache_set"
    /\ data' = MockSet(SharedKey, pending[c].val, << >>).data
    /\ expiry' = MockSet(SharedKey, pending[c].val, << >>).expiry
    /\ ran' = Append(ran, pending[c])
    /\ pending' = [pending EXCEPT ![c] = Done]
    /\ UNCHANGED <<store, now, last, written, dlast, refVars, mgrVars, svcVars, http, jobs, snap>>

\* The event loop runs the caller's `await doc_ref.set(fields)`.
ApplyDocSet(c) ==
    /\ pending[c].kind = "doc_set"
    /\ store' = DocumentSet(SharedColl, SharedDoc, pending[c].fields)
    /\ ran' = Append(ran, pending[c])
    /\ pending' = [pending EXCEPT ![c] = Done]
    /\ UNCHANGED <<data, writerOthers>>

\* The event loop runs the caller's `await doc_ref.update(fields)`.
ApplyDocUpdate(c) ==
    /\ pending[c].kind = "doc_update"
    /\ store' = DocumentUpdate(SharedColl, SharedDoc, pending[c].fields)
    /\ ran' = Append(ran, pending[c])
    /\ pending' = [pending EXCEPT ![c] = Done]
    /\ UNCHANGED <<data, writerOthers>>

WriterNext ==
    \/ \E c \in Callers, w \in CacheWrites \cup DocWrites : Issue(c, w)
    \/ \E c \in Callers : ApplyCacheSet(c)
    \/ \E c \in Callers : ApplyDocSet(c)
    \/ \E c \in Callers : ApplyDocUpdate(c)

WriterSpec == Init /\ [][WriterNext]_vars

(***************************************************************************)
(* Both components. The cache and the document store share no state, so a  *)
(* run uses one of them: cache calls while no store call was made, store   *)
(* calls (and get_claim of the manager) while no cache call was made.      *)
(***************************************************************************)
CacheIdle == last.op = "init" /\ now = 0

StoreIdle == dlast.op = "init"

\* The mappings written in these runs: an empty one and one with a field.
SampleMaps == {EmptyFields, [claim_id |-> "c1"]}

ComponentsNext ==
    \/ StoreIdle /\ CacheNext
    \/ CacheIdle /\ \E name \in Colls : Collection(name)
    \/ CacheIdle /\ \E coll \in Colls, doc_id \in DocIds : DocGet(coll, doc_id)
    \/ CacheIdle /\ \E coll \in Colls, doc_id \in DocIds, fields \in SampleMaps :
                        DocSet(coll, doc_id, fields)
    \/ CacheIdle /\ \E coll \in Colls, doc_id \in DocIds : DocDelete(coll, doc_id)
    \/ CacheIdle /\ \E coll \in Colls : Stream(coll)
    \/ CacheIdle /\ \E claim_id \in ClaimIds : GetClaim(claim_id)

ComponentsSpec == Init /\ [][ComponentsNext]_vars

(***************************************************************************)
(* The document store with the mappings as Python objects                  *)
(*                                                                         *)
(* set() stores the dict object it is given (`... [self.id] = data`) and   *)
(* update() changes the stored object in place, so what a document holds   *)
(* is a reference: heap gives the fields of every dict object, refs the    *)
(* object each (collection, id) refers to. StoreSpec above describes the   *)
(* same calls for callers that pass a mapping they use nowhere else.       *)
(***************************************************************************)
\* MockFirestoreCollection.__init__ on the object store.
DocsWith(name) ==
    IF name \in DOMAIN refs
    THEN refs
    ELSE [c \in (DOMAIN refs) \cup {name} |-> IF c = name THEN << >> ELSE refs[c]]

\* `self._data[coll].get(id)`: << >> is None, <<o>> the dict object o.
StoredObj(coll, id) ==
    IF coll \in DOMAIN refs THEN ItemsGet(refs[coll], id) ELSE << >>

\* What a reader of document (coll, id) sees: << >> when there is no such
\* document, <<fields>> otherwise.
DocView(coll, id) ==
    IF StoredObj(coll, id) = << >> THEN << >> ELSE <<heap[StoredObj(coll, id)[1]]>>

\* The objects some document refers to.
Referenced == {o \in DOMAIN heap : \E c \in DOMAIN refs, i \in DocIds : StoredObj(c, i) = <<o>>}

\* A caller builds a dict.
NewDict(o, fields) ==
    /\ o \notin DOMAIN heap
    /\ heap' = DictPut(heap, o, fields)
    /\ UNCHANGED <<refs, refOthers>>

\* A caller lets go of a dict no document and no snapshot refers to.
DropDict(o) ==
    /\ o \in DOMAIN heap
    /\ o \notin Referenced
    /\ snap.ref # <<o>>
    /\ heap' = [x \in (DOMAIN heap) \ {o} |-> heap[x]]
    /\ UNCHANGED <<refs, refOthers>>

\* client.collection(coll).document(doc_id).set(o)
RefSet(coll, doc_id, o) ==
    /\ o \in DOMAIN heap
    /\ refs' = [DocsWith(coll) EXCEPT ![coll] = ItemsPut(@, doc_id, o)]
    /\ UNCHANGED <<heap, refOthers>>

\* client.collection(coll).document(doc_id).update(o)
RefUpdate(coll, doc_id, o) ==
    /\ o \in DOMAIN heap
    /\ IF StoredObj(coll, doc_id) # << >>
       THEN /\ heap' = [heap EXCEPT ![StoredObj(coll, doc_id)[1]] = DictUpdate(@, heap[o])]
            /\ refs' = refs
       ELSE /\ refs' = [DocsWith(coll) EXCEPT ![coll] = ItemsPut(@, doc_id, o)]
            /\ heap' = heap
    /\ UNCHANGED refOthers

\* client.collection(coll).document(doc_id).delete()
RefDelete(coll, doc_id) ==
    /\ refs' = IF StoredObj(coll, doc_id) # << >>
               THEN [refs EXCEPT ![coll] = ItemsDel(@, doc_id)]
               ELSE DocsWith(coll)
    /\ UNCHANGED <<heap, refOthers>>

RefNext ==
    \/ \E o \in Objs, fields \in FieldMaps : NewDict(o, fields)
    \/ \E o \in Objs : DropDict(o)
    \/ \E coll \in Colls, doc_id \in DocIds, o \in Objs : RefSet(coll, doc_id, o)
    \/ \E coll \in Colls, doc_id \in DocIds, o \in Objs : RefUpdate(coll, doc_id, o)
    \/ \E coll \in Colls, doc_id \in DocIds : RefDelete(coll, doc_id)

RefSpec == Init /\ [][RefNext]_vars

\* Mutant of SnapshotData: the snapshot keeps a copy of the mapping.
SnapshotDataCopied(d) == << >>

\* MockDocumentSnapshot.__init__: `self._data = data or {}`. d is what
\* `.get(self.id)` returned: << >> (None) or <<o>>. The stored dict object is
\* kept unless it is empty (falsy), when the snapshot makes a dict of its own.
SnapshotData(d) == IF d = << >> \/ DOMAIN heap[d[1]] = {} THEN << >> ELSE d

\* MockDocumentSnapshot.to_dict: `return self._data`, as it is now.
SnapshotToDict == IF snap.ref = << >> THEN snap.seen ELSE heap[snap.ref[1]]

\* client.collection(coll).document(doc_id).get()
RefGet(coll, doc_id) ==
    /\ refs' = DocsWith(coll)
    /\ snap' = [taken |-> TRUE, coll |-> coll, id |-> doc_id,
                exists |-> StoredObj(coll, doc_id) # << >>,
                ref |-> SnapshotData(StoredObj(coll, doc_id)),
                seen |-> IF DocView(coll, doc_id) = << >> THEN EmptyFields
                         ELSE DocView(coll, doc_id)[1]]
    /\ UNCHANGED <<heap, snapOthers>>

\* The calls on documents, and get.
SnapNext ==
    \/ RefNext
    \/ \E coll \in Colls, doc_id \in DocIds : RefGet(coll, doc_id)

SnapSpec == Init /\ [][SnapNext]_vars

(***************************************************************************)
(* Properties of the cache                                                 *)
(***************************************************************************)
\* The absolute time at which the latest set() of key asked the entry to expire.
Due(key) == written[key].at + written[key].ex[1]

\* The latest write of key was a set() with an integer ttl / a positive ttl.
WrittenWithTtl(key) == key \in DOMAIN written /\ written[key].ex # << >>

WrittenWithPositiveTtl(key) == key \in DOMAIN written /\ Truthy(written[key].ex)

\* A read of key found it expired and purged it: absent result, key gone from
\* both dicts, the entry count one lower when the entry was still stored.
ReadPurges(key) ==
    /\ key \notin DOMAIN data'
    /\ key \notin DOMAIN expiry'
    /\ ~last'.raised
    /\ key \in DOMAIN data =>
          /\ Cardinality(DOMAIN data') = Cardinality(DOMAIN data) - 1
          /\ Cardinality(DOMAIN expiry') = Cardinality(DOMAIN expiry) - 1

ReadKeeps == data' = data /\ expiry' = expiry /\ ~last'.raised

\* The step is the call of get / exists / delete on key that last' records.
GetStep(key) == last'.op = "get" /\ last'.key = key /\ Get(key)

ExistsStep(key) == last'.op = "exists" /\ last'.key = key /\ Exists(key)

DeleteStep(key) == last'.op = "delete" /\ last'.key = key /\ Delete(key)

ExpiryContract(key) ==
    /\ (GetStep(key) /\ now > Due(key)) => (last'.val = None /\ ReadPurges(key))
    /\ (ExistsStep(key) /\ now > Due(key)) => (last'.n = 0 /\ ReadPurges(key))
    /\ (GetStep(key) /\ now < Due(key)) => (last'.val = written[key].val /\ ReadKeeps)
    /\ (ExistsStep(key) /\ now < Due(key)) => (last'.n = 1 /\ ReadKeeps)

\* C1 (as stated): for every key, value and ttl t, once the clock is beyond
\* t after set(k, v, t), get(k) is absent, exists(k) is false and the entry is
\* removed (count one lower); a read before the expiry returns v and removes
\* nothing.
C1_ExpiryAnyTtl ==
    [][\A key \in Keys : WrittenWithTtl(key) => ExpiryContract(key)]_vars

\* C1 (amended): the same for every ttl t > 0; a ttl of 0 records no expiry.
C1_ExpiryPositiveTtl ==
    [][\A key \in Keys : WrittenWithPositiveTtl(key) => ExpiryContract(key)]_vars

\* C1 witness: a get() past the expiry of a set() with positive ttl returned
\* absent and lowered the entry count by one.
C1_Witness ==
    /\ last.op = "get"
    /\ WrittenWithPositiveTtl(last.key)
    /\ now > Due(last.key)
    /\ last.val = None
    /\ Size = last.size - 1

\* C2: after set(k, v2, ttl2) the key holds v2 and its expiry is exactly the
\* one of this call (now + ttl2, none without ttl), whatever an earlier set
\* recorded; a value written without ttl is never removed by an old expiry.
C2_SetOverwritesExpiry ==
    /\ last.op = "set" =>
          /\ last.key \in DOMAIN data /\ data[last.key] = last.val
          /\ IF Truthy(written[last.key].ex)
             THEN last.key \in DOMAIN expiry /\ expiry[last.key] = Due(last.key)
             ELSE last.key \notin DOMAIN expiry
    /\ \A key \in DOMAIN written :
          ~Truthy(written[key].ex) =>
              key \in DOMAIN data /\ data[key] = written[key].val

\* C2 witness: a value written without ttl over an entry that had one.
C2_Witness ==
    /\ last.op = "set"
    /\ written[last.key].ex = << >>
    /\ last.key \in DOMAIN expiry

\* C3: for ttl t > 0 and any prior cache state, immediately after
\* set(k, v, t) (no time elapsed) get(k) returns v and exists(k) returns true.
C3_ReadAfterSet ==
    [][\A key \in Keys :
          (WrittenWithPositiveTtl(key) /\ written[key].at = now) =>
              /\ GetStep(key) => last'.val = written[key].val
              /\ ExistsStep(key) => last'.n = 1]_vars

\* C3 witness: a get() at the time of a set() with positive ttl returned v.
C3_Witness ==
    /\ last.op = "get"
    /\ WrittenWithPositiveTtl(last.key)
    /\ written[last.key].at = now
    /\ now > 0
    /\ last.val = written[last.key].val

\* The keys other than key are exactly as before.
OthersUntouched(key) ==
    \A k \in Keys \ {key} :
        /\ (k \in DOMAIN data') = (k \in DOMAIN data)
        /\ (k \in DOMAIN expiry') = (k \in DOMAIN expiry)
        /\ k \in DOMAIN data => data'[k] = data[k]
        /\ k \in DOMAIN expiry => expiry'[k] = expiry[k]

\* C4: delete(k) returns 1 and removes value and expiry record when k is
\* present; returns 0, raises nothing and changes nothing when k is absent;
\* no other count, no other key touched.
C4_Delete ==
    [][\A key \in Keys :
          DeleteStep(key) =>
              /\ ~last'.raised
              /\ OthersUntouched(key)
              /\ IF key \in DOMAIN data
                 THEN /\ last'.n = 1
                      /\ key \notin DOMAIN data'
                      /\ key \notin DOMAIN expiry'
                 ELSE /\ last'.n = 0
                      /\ data' = data
                      /\ expiry' = expiry]_vars

\* C4 witness: delete() of a stored key with an expiry record returned 1
\* while another key stayed stored.
C4_Witness ==
    /\ last.op = "delete"
    /\ last.n = 1
    /\ last.size = 2
    /\ Size = 1
    /\ DOMAIN expiry # {}

\* C5: exists(k) is true exactly when get(k) in the same state returns a
\* stored value, and exists purges an expired entry exactly as get does.
C5_ExistsLikeGet ==
    [][\A key \in Keys :
          ExistsStep(key) =>
              /\ (last'.n = 1) = (MockGet(key).val # None)
              /\ data' = MockGet(key).data
              /\ expiry' = MockGet(key).expiry
              /\ last'.raised = MockGet(key).raised]_vars

\* C5 witness: exists() found an expired entry, answered 0 and purged it.
C5_Witness ==
    /\ last.op = "exists"
    /\ last.n = 0
    /\ Size = last.size - 1

(***************************************************************************)
(* Properties of the document store                                        *)
(***************************************************************************)
BothFields == [claim_id |-> "c1", status |-> "new"]

\* The step is the call of update / get / delete that dlast' records.
UpdateStep == dlast'.op = "update" /\ DocUpdate(dlast'.coll, dlast'.id, dlast'.arg)

GetDocStep == dlast'.op = "get" /\ DocGet(dlast'.coll, dlast'.id)

DeleteDocStep == dlast'.op = "delete" /\ DocDelete(dlast'.coll, dlast'.id)

\* C6: update(partial) on an existing document keeps every field not named
\* in partial and sets every field named in partial to partial's value; on
\* an absent document it creates the document with exactly partial's fields.
C6_UpdateMerges ==
    [][UpdateStep =>
              LET coll == dlast'.coll
                  doc_id == dlast'.id
                  partial == dlast'.arg
                  b == ItemsGet(store[coll], doc_id)
                  a == ItemsGet(store'[coll], doc_id)
              IN  /\ a # << >>
                  /\ IF b = << >>
                     THEN a[1] = partial
                     ELSE /\ DOMAIN a[1] = (DOMAIN b[1]) \cup (DOMAIN partial)
                          /\ \A f \in DOMAIN partial : a[1][f] = partial[f]
                          /\ \A f \in (DOMAIN b[1]) \ (DOMAIN partial) :
                                a[1][f] = b[1][f]]_vars

\* C6 witness: update({claim_id: c2}) of a document {claim_id: c1, status: new}
\* left {claim_id: c2, status: new}.
C6_Witness ==
    /\ dlast.op = "update"
    /\ dlast.before = <<BothFields>>
    /\ dlast.arg = [claim_id |-> "c2"]
    /\ ItemsGet(store[dlast.coll], dlast.id) = <<[claim_id |-> "c2", status |-> "new"]>>

\* C7: after set(fields), get() returns exists = true and exactly fields, no
\* field of the previous content surviving, whether or not the document
\* existed before.
C7_SetReplaces ==
    dlast.op = "set" =>
        /\ DocumentGet(dlast.coll, dlast.id).exists
        /\ DocumentGet(dlast.coll, dlast.id).fields = dlast.arg
        /\ DocumentGet(dlast.coll, dlast.id).id = dlast.id

\* C7 witness: set({claim_id: c2}) over {claim_id: c1, status: new}; the
\* status field is gone.
C7_Witness ==
    /\ dlast.op = "set"
    /\ dlast.before = <<BothFields>>
    /\ dlast.arg = [claim_id |-> "c2"]
    /\ DocumentGet(dlast.coll, dlast.id).fields = [claim_id |-> "c2"]

\* C8: get() returns a snapshot whose exists flag is true exactly when the
\* document is stored; for a non-existent document exists = false with an
\* empty mapping; get raises nothing and creates nothing.
C8_GetSnapshot ==
    [][GetDocStep =>
              /\ dlast'.snap.exists =
                    (\E n \in 1..Len(store[dlast'.coll]) : store[dlast'.coll][n].id = dlast'.id)
              /\ ~dlast'.snap.exists => DOMAIN dlast'.snap.fields = {}
              /\ ~dlast'.raised
              /\ store' = store]_vars

\* C8 witness: get() of an absent document in a collection that holds
\* another document, one with no fields.
C8_Witness ==
    /\ dlast.op = "get"
    /\ ~dlast.snap.exists
    /\ dlast.snap.fields = EmptyFields
    /\ Len(store[dlast.coll]) = 1
    /\ store[dlast.coll][1].fields = EmptyFields

\* C9: delete() removes the document when present and is a no-op when
\* absent; every other document of the collection and every other
\* collection is left unchanged.
C9_DeleteFrame ==
    [][DeleteDocStep =>
          LET coll == dlast'.coll
              doc_id == dlast'.id
          IN  /\ DOMAIN store' = DOMAIN store
              /\ ItemsGet(store'[coll], doc_id) = << >>
              /\ ItemsGet(store[coll], doc_id) = << >> => store' = store
              /\ \A c \in (DOMAIN store) \ {coll} : store'[c] = store[c]
              /\ \A other \in DocIds \ {doc_id} :
                    ItemsGet(store'[coll], other) = ItemsGet(store[coll], other)]_vars

\* C9 witness: delete() of a stored document; another document of the same
\* collection is still stored.
C9_Witness ==
    /\ dlast.op = "delete"
    /\ dlast.before # << >>
    /\ Len(store[dlast.coll]) = 1
    /\ store[dlast.coll][1].id # dlast.id

\* The documents of coll whose claim_id equals x, in insertion order.
Matching(coll, x) ==
    SelectSeq(store[coll],
              LAMBDA e : "claim_id" \in DOMAIN e.fields /\ e.fields["claim_id"] = x)

FirstN(items, n) == SubSeq(items, 1, IF Len(items) < n THEN Len(items) ELSE n)

\* C10: a stream with the filter claim_id == x and an optional limit n yields
\* exactly the stored documents whose claim_id equals x, in insertion order,
\* truncated to the first n with a limit (get_evidence_by_claim: no limit,
\* get_verdict_by_claim: limit 1).
C10_FilteredStream ==
    /\ dlast.op = "get_evidence_by_claim" => dlast.docs = Matching("evidence", dlast.x)
    /\ dlast.op = "get_verdict_by_claim" => dlast.docs = FirstN(Matching("verdicts", dlast.x), 1)

\* A stream of the collection named in the record, consumed to its end.
StreamStep == dlast'.op = "stream" /\ Stream(dlast'.coll)

\* The document id of the yielded documents docs, << >> when not yielded.
Yielded(docs, id) == ItemsGet(docs, id)

\* C11: every stream() re-scans the collection as it is now. It yields
\* exactly the stored documents, each once, in the order the collection holds
\* them, and changes nothing. A stream right after a set or update of a
\* document of the collection yields that document with the written fields,
\* a stream right after a delete does not yield the deleted document, and a
\* stream right after a stream of the same collection yields the same
\* documents in the same order.
C11_StreamRescans ==
    [][StreamStep =>
        LET c == dlast'.coll
            docs == dlast'.docs
        IN  /\ store' = store
            /\ Len(docs) = Len(store[c])
            /\ \A i \in 1..Len(docs) : docs[i] = store[c][i]
            /\ \A i, j \in 1..Len(docs) : docs[i].id = docs[j].id => i = j
            /\ (dlast.op = "set" /\ dlast.coll = c)
                    => Yielded(docs, dlast.id) = <<dlast.arg>>
            /\ (dlast.op = "update" /\ dlast.coll = c)
                    => Yielded(docs, dlast.id) =
                          <<IF dlast.before = << >> THEN dlast.arg
                            ELSE DictUpdate(dlast.before[1], dlast.arg)>>
            /\ (dlast.op = "delete" /\ dlast.coll = c)
                    => Yielded(docs, dlast.id) = << >>
            /\ (dlast.op = "stream" /\ dlast.coll = c)
                    => docs = dlast.docs]_vars

\* A stream run right after a stream of the same collection yielded its two
\* documents again.
C11_Witness ==
    /\ dlast.op = "stream"
    /\ dlast.after = "stream"
    /\ Len(dlast.docs) = 2
    /\ dlast.docs = store[dlast.coll]
\* No id is a key of a collection twice.
UniqueIds(d) ==
    \A c \in DOMAIN d : \A i, j \in 1..Len(d[c]) : d[c][i].id = d[c][j].id => i = j

\* The collections in which document doc_id reads differently after the step.
Changed(doc_id) == {c \in Colls : DocView(c, doc_id)' # DocView(c, doc_id)}

\* C12: documents are identified by (collection, id). A collection holds at
\* most one document per id, and a set, update or delete of document id in
\* one collection changes the document of that id in no other collection:
\* a call changes what is read under an id in at most one collection.
C12_UniqueByCollectionAndId ==
    [][/\ UniqueIds(refs')
       /\ \A doc_id \in DocIds : Cardinality(Changed(doc_id)) <= 1]_vars

\* The same dict object is the document d1 of both collections.
C12_Witness ==
    /\ StoredObj("evidence", "d1") # << >>
    /\ StoredObj("evidence", "d1") = StoredObj("verdicts", "d1")
\* Key is no key of the cache.
NoKey(key) == key \notin DOMAIN data

\* What the cache answers for a key it does not hold.
CacheAbsence(key) ==
    /\ (GetStep(key) /\ NoKey(key)) => (last'.val = None /\ data' = data)
    /\ (ExistsStep(key) /\ NoKey(key)) => (last'.n = 0 /\ data' = data)
    /\ (DeleteStep(key) /\ NoKey(key)) => (last'.n = 0 /\ data' = data)

GetClaimStep == dlast'.op = "get_claim" /\ GetClaim(dlast'.x)

\* What the store answers for a document or collection it does not hold.
StoreAbsence ==
    /\ (GetDocStep /\ dlast'.before = << >>)
            => (~dlast'.snap.exists /\ dlast'.snap.fields = EmptyFields /\ store' = store)
    /\ (DeleteDocStep /\ dlast'.before = << >>) => store' = store
    /\ (StreamStep /\ store[dlast'.coll] = << >>) => dlast'.docs = << >>
    /\ (dlast'.op = "collection" /\ dlast'.coll \notin DOMAIN store)
            => store'[dlast'.coll] = << >>
    /\ (GetClaimStep /\ ("claims" \notin DOMAIN store \/ dlast'.snap.exists = FALSE))
            => dlast'.docs = << >>

\* C13: absence is an answer, never an error. For a key the cache does not
\* hold, get returns None, exists returns 0 and delete returns 0; for a
\* document the store does not hold, get returns a snapshot with exists
\* false, delete changes nothing, a stream of an empty or new collection
\* yields nothing and get_claim returns None; and no call raises.
C13_AbsenceIsNoError ==
    [][/\ last'.raised = FALSE
       /\ dlast'.raised = FALSE
       /\ \A key \in Keys : CacheAbsence(key)
       /\ StoreAbsence]_vars

\* delete of a key that is not stored returned 0.
C13_Witness ==
    /\ last.op = "delete"
    /\ last.n = 0
    /\ last.key \notin DOMAIN data
    /\ ~last.raised
(***************************************************************************)
(* Properties of CacheManager                                              *)
(***************************************************************************)
GetJsonStep == mlast'.op = "get_json" /\ GetJson(mlast'.prefix, mlast'.id)

SetJsonStep ==
    /\ mlast'.op = "set_json"
    /\ \E ttl \in TtlArgs : SetJson(mlast'.prefix, mlast'.id, mlast'.arg, ttl)

ManagerDeleteStep == mlast'.op = "delete" /\ ManagerDelete(mlast'.prefix, mlast'.id)

\* The key the manager is documented to use, written out.
DocumentedKey(prefix, identifier) ==
    CASE prefix = "claim" /\ identifier = "x1" -> "trustnet:claim:x1"
      [] prefix = "verdict" /\ identifier = "x1" -> "trustnet:verdict:x1"

\* The payload stored for (prefix, identifier) is no JSON document.
StoredMalformed(prefix, identifier) ==
    /\ DocumentedKey(prefix, identifier) \in DOMAIN data
    /\ Loads(data[DocumentedKey(prefix, identifier)]) = << >>

\* C15: a stored payload that is no valid JSON is a miss. get_json on it
\* returns None and raises nothing.
C15_MalformedIsMiss ==
    [][(GetJsonStep /\ cache_initialized /\ StoredMalformed(mlast'.prefix, mlast'.id))
            => (mlast'.ret = << >> /\ ~mlast'.raised)]_vars

\* get_json ran on a stored payload that is not JSON and returned None.
C15_Witness ==
    /\ mlast.op = "get_json"
    /\ mlast.ready
    /\ DocumentedKey(mlast.prefix, mlast.id) \in DOMAIN data
    /\ data[DocumentedKey(mlast.prefix, mlast.id)] \in Malformed
    /\ mlast.ret = << >>
    /\ ~mlast.raised
\* What get_json(prefix, identifier) returns, called in the state at hand.
ReadBack(prefix, identifier) == ManagerGet(prefix, identifier).ret

\* C16 as stated: for every value json.dumps accepts, set_json followed at
\* once by get_json of the same category and identifier returns that value.
C16_RoundTrip ==
    [][(SetJsonStep /\ cache_initialized)
            => \A prefix \in Prefixes, identifier \in Ids :
                  (mlast'.prefix = prefix /\ mlast'.id = identifier)
                      => ReadBack(prefix, identifier)' = <<mlast'.arg>>]_vars

\* C16 for the values json.loads can return (strings, numbers, lists, dicts
\* with str keys, nested): on an initialized cache, set_json followed at once
\* by get_json of the same category and identifier returns that value.
C16_RoundTripNative ==
    [][(SetJsonStep /\ cache_initialized /\ Native(mlast'.arg))
            => \A prefix \in Prefixes, identifier \in Ids :
                  (mlast'.prefix = prefix /\ mlast'.id = identifier)
                      => ReadBack(prefix, identifier)' = <<mlast'.arg>>]_vars

\* set_json stored a nested mapping that reads back as written.
C16_Witness ==
    /\ mlast.op = "set_json"
    /\ mlast.ready
    /\ mlast.ok
    /\ mlast.arg = PyDict(<<PyStr("k")>>, <<PyList(<<PyInt(1)>>)>>)
    /\ ReadBack(mlast.prefix, mlast.id) = <<mlast.arg>>
\* Keys of different categories differ, whatever the identifiers.
KeysDisjoint ==
    \A c1, c2 \in Categories, i1, i2 \in {"x1", "x2", "x1:x2", "verdict:x1", ""} :
        c1 # c2 => MakeKey(c1, i1) # MakeKey(c2, i2)

\* The keys of the client that are not the key documented for (prefix, identifier).
OtherKeys(d, prefix, identifier) == (DOMAIN d) \ {DocumentedKey(prefix, identifier)}

\* The step wrote or deleted the entry of (prefix, identifier) and no other.
WritesOnly(prefix, identifier) ==
    /\ OtherKeys(data', prefix, identifier) = OtherKeys(data, prefix, identifier)
    /\ \A k \in OtherKeys(data, prefix, identifier) : data'[k] = data[k]
    /\ \A c2 \in Prefixes \ {prefix} :
            ReadBack(c2, identifier)' = ReadBack(c2, identifier)

\* C17: the key of an entry is trustnet:{category}:{identifier}, keys of
\* different categories never coincide, and a set_json or delete of the
\* entry of (c1, id) changes no other key of the client, so get_json(c2, id)
\* returns for every other category c2 what it returned before.
C17_CategoriesIndependent ==
    [][/\ KeysDisjoint
       /\ \A prefix \in Prefixes, identifier \in Ids :
            (/\ mlast'.prefix = prefix
             /\ mlast'.id = identifier
             /\ cache_initialized
             /\ SetJsonStep \/ ManagerDeleteStep)
                => /\ WritesOnly(prefix, identifier)
                   /\ mlast'.op = "set_json"
                        => DocumentedKey(prefix, identifier) \in DOMAIN data']_vars

\* An entry was written while the other category held an entry of the same
\* identifier, which still reads as it was stored.
C17_Witness ==
    /\ mlast.op = "set_json"
    /\ mlast.ready
    /\ mlast.prefix = "claim"
    /\ mlast.arg = PyInt(1)
    /\ ReadBack("claim", "x1") = <<PyInt(1)>>
    /\ ReadBack("verdict", "x1") = <<PyStr("a")>>
(***************************************************************************)
(* Properties of initialization                                            *)
(***************************************************************************)
CacheManagerOps == {"get_json", "set_json", "delete", "exists"}

FirestoreManagerOps == {"create_claim", "get_claim", "update_claim", "get_evidence_by_claim"}

\* C14: not-initialized is fatal and propagated. A CacheManager call made
\* while the cache is not initialized, and a FirestoreManager call made
\* while no Firestore client can be had, raises to its caller; it does not
\* return None, False or an empty list.
C14_NotInitializedPropagates ==
    /\ (mlast.op \in CacheManagerOps /\ ~mlast.ready) => mlast.raised
    /\ (slast.op \in FirestoreManagerOps /\ ~slast.ready) => slast.raised

\* get_json was called before init_redis and returned None.
C14_Witness ==
    /\ mlast.op = "get_json"
    /\ ~mlast.ready
    /\ mlast.ret = << >>
    /\ ~mlast.raised

\* C20: a lifespan that began with nothing initialized gets through
\* init_database, init_redis and init_gcp_clients without an error: once
\* its startup steps are over it is or was at the serving point, and at the
\* serving point the database layer, the cache and the GCP clients are all
\* initialized.
C20_StartupCompletes ==
    /\ (fresh_start /\ pc \notin StartupSteps) => ~error
    /\ (fresh_start /\ pc = "serving")
            => (database_initialized /\ cache_initialized /\ gcp_initialized)

\* A lifespan that began with nothing initialized has left its startup steps.
C20_Witness ==
    /\ fresh_start
    /\ pc = "close_gcp"
    /\ ~database_initialized
    /\ ~cache_initialized
    /\ ~gcp_initialized

CloseSteps == {"close_gcp", "close_redis", "close_database"}

\* The closes run in the order of `finally`, entered from any startup step
\* and from the serving point.
ShutdownOrder ==
    /\ (pc \in StartupSteps \cup {"serving"} /\ pc' \notin StartupSteps \cup {"serving"})
            => pc' = "close_gcp"
    /\ (pc = "close_gcp" /\ pc' # pc) => pc' = "close_redis"
    /\ (pc = "close_redis" /\ pc' # pc) => pc' = "close_database"
    /\ (pc = "close_database" /\ pc' # pc) => pc' = "stopped"
    /\ pc = "stopped" => pc' = "stopped"

\* A close of a component that is not initialized changes nothing.
CloseIsNoOp ==
    /\ (pc = "close_gcp" /\ pc' = "close_redis" /\ ~gcp_initialized)
            => UNCHANGED <<gcp_initialized, mock_mode, firestore_client>>
    /\ (pc = "close_redis" /\ pc' = "close_database" /\ ~cache_initialized)
            => UNCHANGED <<cache_initialized, redis_client, data, expiry>>
    /\ (pc = "close_database" /\ pc' = "stopped" /\ ~database_initialized)
            => UNCHANGED database_initialized

\* C21: graceful shutdown always happens. A lifespan whose startup has begun
\* either serves or, when a step raised, goes on to the closes; the closes
\* run as close_gcp_clients, close_redis, close_database and reach the end;
\* a close of a component that is not initialized is a no-op; and after
\* shutdown the database flag and the cache flag are cleared, the cache
\* client reference is None and, in mock mode, the GCP manager is not
\* initialized.
C21_GracefulShutdown ==
    /\ [](pc = "stopped" =>
            /\ ~database_initialized
            /\ ~cache_initialized
            /\ redis_client = None
            /\ (mock_mode => ~gcp_initialized))
    /\ [][ShutdownOrder /\ CloseIsNoOp]_vars
    /\ (pc \in StartupSteps) ~> (pc \in {"serving"} \cup CloseSteps)
    /\ (pc \in CloseSteps) ~> (pc = "stopped")

\* A lifespan in mock mode that served has shut down.
C21_Witness ==
    /\ pc = "stopped"
    /\ ~error
    /\ mock_mode
    /\ ~gcp_initialized

\* A step that is init_gcp_clients(), called directly or by lifespan.
InitializeStep(real_ok) == InitGcpClients(real_ok) \/ LifespanInitGcp(real_ok)

\* C22: GCPClientManager.initialize is idempotent and never propagates a
\* failure. Every call ends with the manager initialized and raises
\* nothing; a call on an initialized manager leaves the manager's flags, the
\* installed Firestore client, the client db_manager holds and every stored
\* document as they were; a call on an uninitialized manager whose real
\* clients cannot be built ends in mock mode with the mock client installed.
C22_InitializeIdempotent ==
    [][(slast'.op = "init_gcp_clients" \/ pc = "init_gcp") =>
        \A real_ok \in BOOLEAN :
            InitializeStep(real_ok) =>
                /\ gcp_initialized'
                /\ InitGcpClients(real_ok) => ~slast'.raised
                /\ LifespanInitGcp(real_ok) => (pc' = "serving" /\ ~error')
                /\ gcp_initialized =>
                        UNCHANGED <<gcp_initialized, mock_mode, firestore_client,
                                    db_client, store>>
                /\ (~gcp_initialized /\ ~mock_mode /\ ~real_ok) =>
                        (mock_mode' /\ firestore_client' = "mock")]_vars

\* init_gcp_clients() was called on an initialized manager whose mock
\* Firestore holds a claim.
C22_Witness ==
    /\ slast.op = "init_gcp_clients"
    /\ slast.ready
    /\ gcp_initialized
    /\ firestore_client = "mock"
    /\ "claims" \in DOMAIN store
    /\ Len(store["claims"]) > 0
(***************************************************************************)
(* Properties of concurrent writers                                        *)
(***************************************************************************)
Max(S) == CHOOSE n \in S : \A m \in S : m <= n

\* The cache sets that ran, and the writes that ran which decide field f of
\* the document: every set, and every update that names f.
CacheSetsRan == {i \in 1..Len(ran) : ran[i].kind = "cache_set"}

Deciding(f) ==
    {i \in 1..Len(ran) :
        \/ ran[i].kind = "doc_set"
        \/ ran[i].kind = "doc_update" /\ f \in DOMAIN ran[i].fields}

\* The shared document as it is stored, << >> when it is not.
SharedFields ==
    IF SharedColl \in DOMAIN store THEN ItemsGet(store[SharedColl], SharedDoc) ELSE << >>

StoredClaimIds ==
    IF "claims" \in DOMAIN store
    THEN {store["claims"][i].id : i \in 1..Len(store["claims"])}
    ELSE {}

\* C19: every verification_id a successful POST /v1/verify returned names a
\* stored claim, and a GET /v1/verify/{verification_id} for such an id is
\* not answered 404.
C19_ReturnedIdIsStored ==
    /\ http.issued \subseteq StoredClaimIds
    /\ (http.resp.op = "post" /\ http.resp.status = 200) => http.resp.id \in StoredClaimIds
    /\ (http.resp.op = "get" /\ http.resp.id \in http.issued) => http.resp.status # 404

\* A queued POST returned an id and a following GET for it answered 200.
C19_Witness ==
    /\ http.resp.op = "get"
    /\ http.resp.id \in http.issued
    /\ http.resp.status = 200

\* C23: a verification answered as queued is resolved once its background
\* task has run to its end: a GET for it after that returns a completed or
\* needs_review result and not status "processing".
C23_QueuedIsResolved ==
    (http.resp.op = "get" /\ http.resp.id \in http.queued /\ http.resp.after_task)
        => (http.resp.status = 200 /\ http.resp.body \in {"completed", "needs_review"})

\* A GET for a queued id, after its background task ended, answered
\* "processing".
C23_Witness ==
    /\ http.resp.op = "get"
    /\ http.resp.id \in http.queued
    /\ http.resp.after_task
    /\ http.resp.status = 200
    /\ http.resp.body = "processing"

\* C24: the quarantine gate is consistent between the two endpoints. For a
\* claim with a stored verdict, GET /v1/verify/{id} answers
\* QuarantineRequired exactly when the confidence is below 0.65 and POST
\* /v1/quarantine/{id}/verdict answers 400 exactly when it is 0.65 or more;
\* both answer 404 when the claim does not exist.
C24_GateConsistent ==
    LET r == http.resp
    IN  /\ (r.op = "get" /\ r.ready /\ r.claim /\ r.verdict # << >>)
                => (r.body = "needs_review" <=> r.verdict[1] < ConfidenceGate)
        /\ (r.op = "quarantine" /\ r.ready /\ r.claim /\ r.verdict # << >>)
                => (r.status = 400 <=> r.verdict[1] >= ConfidenceGate)
        /\ (r.op \in {"get", "quarantine"} /\ r.ready /\ ~r.claim) => r.status = 404

\* A GET for a claim whose stored verdict has confidence 0.50 answered
\* "processing".
C24_Witness ==
    /\ http.resp.op = "get"
    /\ http.resp.claim
    /\ http.resp.verdict = <<50>>
    /\ http.resp.status = 200
    /\ http.resp.body = "processing"

\* The values the recorded progress takes: the running sums of the step
\* durations.
RECURSIVE SumTo(_)
SumTo(n) == IF n = 0 THEN 0 ELSE SumTo(n - 1) + StepDurations[n]

ProgressValues == {SumTo(n) : n \in 1..Len(StepDurations)}

\* C25: the analysis record follows a one-way lifecycle. Once start_analysis
\* was called the record is stored, with status "processing" until
\* comprehensive_analysis ends it; a recorded progress is one of 10, 40, 65,
\* 85, 100; status "completed" comes with progress 100; and when a step of
\* comprehensive_analysis raised, the record ends with status "failed".
C25_OneWayLifecycle ==
    \A id \in AnalysisIds :
        /\ jobs[id].started # "no" => jobs[id].record # << >>
        /\ jobs[id].record # << >> =>
                /\ jobs[id].record[1].status \in {"processing", "completed", "failed"}
                /\ jobs[id].record[1].progress \in {0} \cup ProgressValues
                /\ jobs[id].record[1].status = "completed"
                        => jobs[id].record[1].progress = 100
        /\ jobs[id].pc = "raised" =>
                (jobs[id].record # << >> /\ jobs[id].record[1].status = "failed")

\* start_analysis and comprehensive_analysis were called for an analysis
\* and no record of it is stored.
C25_Witness ==
    \E id \in AnalysisIds :
        /\ jobs[id].started = "raised"
        /\ jobs[id].pc = "raised"
        /\ jobs[id].progress = 10
        /\ jobs[id].record = << >>

\* On every set_json step of an initialized cache with argument ttl, the
\* entry is stored with expiry now + Lifetime(ttl).
ExpiryAfterSetJson(Lifetime(_)) ==
    mlast'.op = "set_json" =>
        \A prefix \in Prefixes, identifier \in Ids, ttl \in TtlInputs :
            (cache_initialized /\ SetJson(prefix, identifier, PyInt(1), ttl)) =>
                /\ MakeKey(prefix, identifier) \in DOMAIN data'
                /\ MakeKey(prefix, identifier) \in DOMAIN expiry'
                /\ expiry'[MakeKey(prefix, identifier)] = now + Lifetime(ttl)

\* The claim's lifetime: ttl when positive, the default otherwise.
PositiveOrDefault(ttl) == IF ttl # << >> /\ ttl[1] > 0 THEN ttl[1] ELSE DefaultTtl

\* The lifetime of `ttl or default_ttl`: ttl unless None or 0.
NonZeroOrDefault(ttl) == IF ttl # << >> /\ ttl[1] # 0 THEN ttl[1] ELSE DefaultTtl

\* C26 as stated: every entry written through set_json carries an expiry,
\* now + ttl when ttl is positive and now + default_ttl otherwise.
C26_ExpiryPositiveOrDefault ==
    /\ [](\A key \in DOMAIN data : key \in DOMAIN expiry)
    /\ [][ExpiryAfterSetJson(PositiveOrDefault)]_vars

\* C26 amended: every entry written through set_json carries an expiry,
\* now + default_ttl when ttl is None or 0 and now + ttl for every other
\* ttl, a negative one included (the entry is then expired as it is
\* written); no entry written through the manager is without an expiry.
C26_ExpiryNonZeroOrDefault ==
    /\ [](\A key \in DOMAIN data : key \in DOMAIN expiry)
    /\ [][ExpiryAfterSetJson(NonZeroOrDefault)]_vars

\* set_json without a positive ttl, after the clock advanced: the entry
\* expires the default lifetime from now.
C26_Witness ==
    /\ mlast.op = "set_json"
    /\ mlast.ready
    /\ now > 0
    /\ MakeKey(mlast.prefix, mlast.id) \in DOMAIN expiry
    /\ expiry[MakeKey(mlast.prefix, mlast.id)] = now + DefaultTtl

\* C27: add stores the new document under an id no document of the
\* collection uses: no add finds a document under the id it writes, so add
\* overwrites nothing and the collection grows by exactly one document.
C27_AddIdIsFresh ==
    dlast.op = "add" =>
        /\ dlast.before = << >>
        /\ \A i, j \in 1..Len(store[dlast.coll]) :
                store[dlast.coll][i].id = store[dlast.coll][j].id => i = j

\* An add wrote the id of a stored document: the collection still has one
\* document.
C27_Witness ==
    /\ dlast.op = "add"
    /\ dlast.before # << >>
    /\ dlast.id = "mock_1"
    /\ Len(store[dlast.coll]) = 1

\* C28: a snapshot is a point-in-time view. Whatever update, set or delete
\* did to the document after get(), to_dict() returns the mapping it
\* returned when the snapshot was taken. (The exists flag is a bool assigned
\* once in __init__; no call on a document reaches it.)
C28_SnapshotIsFixed ==
    snap.taken => SnapshotToDict = snap.seen

\* A snapshot of a stored document returns a mapping other than the one it
\* returned when it was taken.
C28_Witness ==
    /\ snap.taken
    /\ snap.exists
    /\ SnapshotToDict # snap.seen
====
